---- MODULE Spec2Model ----
(***************************************************************************)
(* Model of the eden ray tracer core: interval, ray, sphere intersection,  *)
(* the scene's nearest-hit scan, material scattering and the recursive     *)
(* radiance estimator Camera::ray_color.                                   *)
(*                                                                         *)
(* f32 values are modelled as fixed-point numbers: the integer n stands    *)
(* for n / Scale, and every product, quotient and square root is rounded   *)
(* to the nearest representable value, once per operation, as a float      *)
(* unit does.  f32::INFINITY is a number above every finite value.         *)
(***************************************************************************)
EXTENDS Integers, Sequences, FiniteSets, TLC

(***************************************************************************)
(* Scalars                                                                 *)
(***************************************************************************)

\* Number of fixed-point steps per unit (1.0 is Scale).
Scale == 1000

\* f32::INFINITY; -INFINITY is f32::NEG_INFINITY.
INFINITY == 2000000000

\* Most negative finite value (f32::MIN).
F32_MIN == 1 - INFINITY

\* The gap between adjacent values at 1.0 (T::epsilon()).
EPSILON == 1

\* f32::NAN: a value no f32 comparison holds for, outside the range of the
\* numbers of the model.
NAN == -2000000001

\* n units.
U(n) == n * Scale

\* n tenths of a unit.
Dec(n) == n * (Scale \div 10)

Abs(x) == IF x < 0 THEN -x ELSE x

Sgn(x) == IF x < 0 THEN -1 ELSE IF x > 0 THEN 1 ELSE 0

\* n / d rounded to the nearest integer (d # 0).  Here and below an operand
\* is bound to its value (a \in {n}) so that it is computed once, as the
\* program computes an argument before the call.
RoundDiv(n, d) ==
    CHOOSE q \in {Sgn(a) * Sgn(b) * ((Abs(a) + (Abs(b) \div 2)) \div Abs(b)) :
                    a \in {n}, b \in {d}} : TRUE

\* x * y on f32.
Mul(x, y) == RoundDiv(x * y, Scale)

\* x / y on f32 (y # 0).
Div(x, y) == RoundDiv(x * Scale, y)

RECURSIVE ISqrtIter(_, _)
\* Newton's iteration for the integer square root of n > 0, from a guess g
\* that is not below it.
ISqrtIter(n, g) ==
    CHOOSE r \in {IF h >= g THEN g ELSE ISqrtIter(n, h) :
                    h \in {(g + (n \div g)) \div 2}} : TRUE

\* The integer square root of n >= 0.
ISqrt(n) ==
    IF n = 0 THEN 0
    ELSE ISqrtIter(n, IF n < 10000 THEN 100
                      ELSE IF n < 1000000 THEN 1000
                      ELSE IF n < 100000000 THEN 10000
                      ELSE 46340)

\* x.sqrt() on f32, for x >= 0: the nearest value to the exact root.
Sqrt(x) ==
    CHOOSE v \in {CHOOSE w \in {IF n - r * r > r THEN r + 1 ELSE r :
                                  r \in {ISqrt(n)}} : TRUE :
                    n \in {x * Scale}} : TRUE

(***************************************************************************)
(* Vector / Point / Color: triples of scalars                              *)
(***************************************************************************)

Vector3f(x, y, z) == <<x, y, z>>

Point3f(x, y, z) == <<x, y, z>>

Color3f(r, g, b) == <<r, g, b>>

\* Vector + Vector, Point + Vector, Color + Color.
VAdd(a, b) ==
    CHOOSE r \in {<<u[1] + v[1], u[2] + v[2], u[3] + v[3]>> :
                    u \in {a}, v \in {b}} : TRUE

\* Vector - Vector, Point - Point.
VSub(a, b) ==
    CHOOSE r \in {<<u[1] - v[1], u[2] - v[2], u[3] - v[3]>> :
                    u \in {a}, v \in {b}} : TRUE

\* Vector * Vector, Color * Color (component-wise).
VMul(a, b) ==
    CHOOSE r \in {<<Mul(u[1], v[1]), Mul(u[2], v[2]), Mul(u[3], v[3])>> :
                    u \in {a}, v \in {b}} : TRUE

\* Scalar * Vector: the scalar is broadcast to every component.
SMul(s, v) ==
    CHOOSE r \in {<<Mul(k, u[1]), Mul(k, u[2]), Mul(k, u[3])>> :
                    k \in {s}, u \in {v}} : TRUE

\* Vector / Scalar.
VDivS(v, s) ==
    CHOOSE r \in {<<Div(u[1], k), Div(u[2], k), Div(u[3], k)>> :
                    u \in {v}, k \in {s}} : TRUE

\* -Vector.
VNeg(v) == CHOOSE r \in {<<-u[1], -u[2], -u[3]>> : u \in {v}} : TRUE

\* The operator $op_symbol of impl_binary_op! on two f32 values.
Apply(o, a, b) ==
    CASE o = "+" -> a + b
      [] o = "-" -> a - b
      [] o = "*" -> Mul(a, b)
      [] o = "/" -> Div(a, b)

\* Vector { components: [s; N] }.
Splat(s) == <<s, s, s>>

\* Vector <op> Vector: the loop over the components.
VectorOp(o, a, b) == [i \in 1..3 |-> Apply(o, a[i], b[i])]

\* Vector <op> Scalar.
VectorScalarOp(o, v, s) == VectorOp(o, v, Splat(s))

\* Variant: the vector is taken as the left operand.
ScalarVectorOpSwapped(o, s, v) == VectorOp(o, v, Splat(s))

\* Scalar <op> Vector.
ScalarVectorOp(o, s, v) == VectorOp(o, Splat(s), v)

\* Color { values }.
Color(values) == [values |-> values]

\* Color <op> Scalar.
ColorScalarOp(o, c, s) == Color(VectorScalarOp(o, c.values, s))

\* Scalar <op> Color.
ScalarColorOp(o, s, c) == Color(ScalarVectorOp(o, s, c.values))

\* Vector::dot: fold of acc + a * b from zero.
Dot(a, b) ==
    CHOOSE r \in {((0 + Mul(u[1], v[1])) + Mul(u[2], v[2])) + Mul(u[3], v[3]) :
                    u \in {a}, v \in {b}} : TRUE

LengthSquared(v) == Dot(v, v)

Length(v) == Sqrt(LengthSquared(v))

Normalize(v) == VDivS(v, Length(v))

\* Vector * Scalar: every component is multiplied by the scalar.
VMulS(v, s) ==
    CHOOSE r \in {<<Mul(u[1], k), Mul(u[2], k), Mul(u[3], k)>> :
                    u \in {v}, k \in {s}} : TRUE

\* f32::min.
MinF(a, b) == IF a < b THEN a ELSE b

\* Option::None of a Vector.
NoVector == [some |-> FALSE]

\* Some(vector).
SomeVector(v) == [some |-> TRUE, value |-> v]

\* Variant: the normal is scaled by three times the dot product.
ReflectThrice(v, normal) ==
    LET three == U(1) + U(1) + U(1)
    IN  VSub(v, VMulS(VMulS(normal, three), Dot(v, normal)))

\* Vector::reflect: self - normal * two * self.dot(normal).
Reflect(v, normal) ==
    LET two == U(1) + U(1)
    IN  VSub(v, VMulS(VMulS(normal, two), Dot(v, normal)))

\* Variant: total internal reflection is never signalled.
RefractAlways(v, normal, etai_over_etat) ==
    LET cos_i == MinF(-Dot(normal, v), U(1))
        sin2_i == U(1) - Mul(cos_i, cos_i)
        sin2_t == MinF(Mul(Mul(etai_over_etat, etai_over_etat), sin2_i), U(1))
        cos_t == Sqrt(U(1) - sin2_t)
    IN  SomeVector(VAdd(VMulS(v, etai_over_etat),
                        VMulS(normal, Mul(etai_over_etat, cos_i) - cos_t)))

\* Vector::refract.
Refract(v, normal, etai_over_etat) ==
    LET cos_i == MinF(-Dot(normal, v), U(1))
        sin2_i == U(1) - Mul(cos_i, cos_i)
        sin2_t == Mul(Mul(etai_over_etat, etai_over_etat), sin2_i)
    IN  IF sin2_t > U(1) THEN NoVector
        ELSE LET cos_t == Sqrt(U(1) - sin2_t)
             IN  SomeVector(VAdd(VMulS(v, etai_over_etat),
                                 VMulS(normal,
                                       Mul(etai_over_etat, cos_i) - cos_t)))

\* Vector::near_zero: every component is below epsilon in magnitude.
NearZero(v) == \A i \in 1..3 : Abs(v[i]) < EPSILON

\* Vector::random_unit_vector, draw being the three values the generator
\* returns from gen_range(-1..1).
RandomUnitVector(draw) == Normalize(draw)

Black == Color3f(0, 0, 0)

White == Color3f(U(1), U(1), U(1))

(***************************************************************************)
(* Interval                                                                *)
(***************************************************************************)

Interval(start, end) == [start |-> start, end |-> end]

\* Variant: the start bound is included.
ContainsHalfOpen(iv, x) == iv.start <= x /\ x < iv.end

\* Variant: both bounds are included.
ContainsClosed(iv, x) == iv.start <= x /\ x <= iv.end

\* Interval::contains: start exclusive, end exclusive.
Contains(iv, x) == iv.start < x /\ x < iv.end

(***************************************************************************)
(* Ray                                                                     *)
(***************************************************************************)

Ray(origin, direction) == [origin |-> origin, direction |-> direction]

\* Ray::at.
RayAt(ray, t) == VAdd(ray.origin, SMul(t, ray.direction))

(***************************************************************************)
(* Materials (constructors)                                                *)
(***************************************************************************)

MaterialNone == [kind |-> "None"]

Lambert(albedo) == [kind |-> "Lambert", albedo |-> albedo]

\* f32 <: false when an operand is NaN.
Lt(a, b) == a # NAN /\ b # NAN /\ a < b

\* f32::clamp: min where self < min, max where self > max, else self.
Clamp(v, lo, hi) == IF Lt(v, lo) THEN lo ELSE IF Lt(hi, v) THEN hi ELSE v

\* Metal::new: the fuzz factor is clamped to [0, 1].
Metal(albedo, fuzz) ==
    [kind |-> "Metal", albedo |-> albedo, fuzz |-> Clamp(fuzz, 0, U(1))]

\* Dielectric::new.
Dielectric(index_of_refraction) ==
    [kind |-> "Dielectric", ior |-> index_of_refraction]

(***************************************************************************)
(* Shape / Sphere                                                          *)
(***************************************************************************)

\* Option::None of an Intersection.
None == [some |-> FALSE]

\* Some(Intersection { point, material, normal, t }).
Intersection(point, material, normal, t) ==
    [some |-> TRUE, normal |-> normal, t |-> t, point |-> point,
     material |-> material]

Sphere(center, radius, material) ==
    [material |-> material, center |-> center, radius |-> radius]

\* The quadratic's coefficients and discriminant, as Sphere::intersect
\* computes them.
Quadratic(s, ray) ==
    LET oc == VSub(ray.origin, s.center)
        a == LengthSquared(ray.direction)
        half_b == Dot(ray.direction, oc)
        c == LengthSquared(oc) - Mul(s.radius, s.radius)
    IN  [a |-> a, half_b |-> half_b, c |-> c,
         discriminant |-> Mul(half_b, half_b) - Mul(a, c)]

\* Variant: the normal is turned against the ray (front-face flipping).
SphereHitFaceForward(s, ray, root) ==
    LET point == RayAt(ray, root)
        outward == VDivS(VSub(point, s.center), s.radius)
        normal == IF Dot(ray.direction, outward) > 0 THEN VNeg(outward)
                  ELSE outward
    IN  Intersection(point, s.material, normal, root)

\* The record Sphere::intersect builds for the surviving root.
SphereHit(s, ray, root) ==
    LET point == RayAt(ray, root)
        normal == VDivS(VSub(point, s.center), s.radius)
    IN  Intersection(point, s.material, normal, root)

\* Variant: the larger root is tested first.
SphereIntersectFarFirst(s, ray, ray_t) ==
    LET q == Quadratic(s, ray)
    IN  IF q.discriminant < 0 THEN None
        ELSE LET discriminant_sqrt == Sqrt(q.discriminant)
                 root1 == Div(-q.half_b + discriminant_sqrt, q.a)
                 root2 == Div(-q.half_b - discriminant_sqrt, q.a)
             IN  IF Contains(ray_t, root1) THEN SphereHit(s, ray, root1)
                 ELSE IF Contains(ray_t, root2) THEN SphereHit(s, ray, root2)
                 ELSE None

\* Variant: a zero discriminant is treated as a miss.
SphereIntersectTangentMiss(s, ray, ray_t) ==
    LET q == Quadratic(s, ray)
    IN  IF q.discriminant <= 0 THEN None
        ELSE LET discriminant_sqrt == Sqrt(q.discriminant)
                 root1 == Div(-q.half_b - discriminant_sqrt, q.a)
                 root2 == Div(-q.half_b + discriminant_sqrt, q.a)
             IN  IF Contains(ray_t, root1) THEN SphereHit(s, ray, root1)
                 ELSE IF Contains(ray_t, root2) THEN SphereHit(s, ray, root2)
                 ELSE None

\* Sphere::intersect.
SphereIntersect(s, ray, ray_t) ==
    LET q == Quadratic(s, ray)
    IN  IF q.discriminant < 0 THEN None
        ELSE LET discriminant_sqrt == Sqrt(q.discriminant)
                 root1 == Div(-q.half_b - discriminant_sqrt, q.a)
                 root2 == Div(-q.half_b + discriminant_sqrt, q.a)
             IN  IF Contains(ray_t, root1) THEN SphereHit(s, ray, root1)
                 ELSE IF Contains(ray_t, root2) THEN SphereHit(s, ray, root2)
                 ELSE None

\* Shape::intersect: dispatch on the variant (Sphere is the only one).
ShapeIntersect(object, ray, ray_t) == SphereIntersect(object, ray, ray_t)

(***************************************************************************)
(* Material scattering                                                     *)
(***************************************************************************)

\* Option::None of an Interaction.
NoInteraction == [some |-> FALSE]

\* Some(Interaction { attenuation, scattered_ray }).
Interaction(attenuation, scattered_ray) ==
    [some |-> TRUE, attenuation |-> attenuation,
     scattered_ray |-> scattered_ray]

\* Variant: a degenerate scatter direction is absorbed.
LambertInteractAbsorbDegenerate(m, incident_ray, isect, draw) ==
    LET sum == VAdd(isect.normal, RandomUnitVector(draw))
    IN  IF NearZero(sum) THEN NoInteraction
        ELSE Interaction(m.albedo, Ray(isect.point, sum))

\* Variant: a degenerate scatter direction is kept.
LambertInteractNoFallback(m, incident_ray, isect, draw) ==
    Interaction(m.albedo,
                Ray(isect.point, VAdd(isect.normal, RandomUnitVector(draw))))

\* Lambert::interact.
LambertInteract(m, incident_ray, isect, draw) ==
    LET sum == VAdd(isect.normal, RandomUnitVector(draw))
        scattered == IF NearZero(sum) THEN isect.normal ELSE sum
    IN  Interaction(m.albedo, Ray(isect.point, scattered))

\* Variant: the reflected direction is used without normalizing it.
MetalInteractUnnormalized(m, incident_ray, isect, draw) ==
    LET reflected == Reflect(incident_ray.direction, isect.normal)
        sum == VAdd(reflected, SMul(m.fuzz, RandomUnitVector(draw)))
        scattered == IF NearZero(sum) THEN reflected ELSE sum
    IN  IF Dot(scattered, isect.normal) < 0 THEN NoInteraction
        ELSE Interaction(m.albedo, Ray(isect.point, scattered))

\* Variant: a degenerate sum is not replaced by the reflected direction.
MetalInteractNoFallback(m, incident_ray, isect, draw) ==
    LET reflected == Reflect(incident_ray.direction, isect.normal)
        scattered == VAdd(Normalize(reflected),
                          SMul(m.fuzz, RandomUnitVector(draw)))
    IN  IF Dot(scattered, isect.normal) < 0 THEN NoInteraction
        ELSE Interaction(m.albedo, Ray(isect.point, scattered))

\* Metal::interact.
MetalInteract(m, incident_ray, isect, draw) ==
    LET reflected == Reflect(incident_ray.direction, isect.normal)
        sum == VAdd(Normalize(reflected),
                    SMul(m.fuzz, RandomUnitVector(draw)))
        scattered == IF NearZero(sum) THEN reflected ELSE sum
    IN  IF Dot(scattered, isect.normal) < 0 THEN NoInteraction
        ELSE Interaction(m.albedo, Ray(isect.point, scattered))

RECURSIVE Powi(_, _)
\* f32::powi for k >= 1: repeated multiplication.
Powi(b, k) == IF k = 1 THEN b ELSE Mul(Powi(b, k - 1), b)

\* Dielectric::schlick.
Schlick(incident, normal, eta) ==
    LET cos_i == MinF(-Dot(incident, normal), U(1))
        r0 == Powi(Div(U(1) - eta, U(1) + eta), 2)
    IN  r0 + Mul(U(1) - r0, Powi(U(1) - cos_i, 5))

\* Variant: the incident direction is used without normalizing it.
DielectricInteractUnnormalized(m, incident_ray, isect, gen) ==
    LET front_face == Dot(incident_ray.direction, isect.normal) <= 0
        normal == IF front_face THEN isect.normal ELSE VNeg(isect.normal)
        etai_over_etat == IF front_face THEN Div(U(1), m.ior) ELSE m.ior
        incident == incident_ray.direction
        refracted == Refract(incident, normal, etai_over_etat)
        scattered == IF Schlick(incident, normal, etai_over_etat) > gen
                     THEN Reflect(incident, normal)
                     ELSE IF refracted.some THEN refracted.value
                     ELSE Reflect(incident, normal)
    IN  Interaction(White, Ray(isect.point, scattered))

\* Variant: the ray is refracted whenever refraction is possible, whatever
\* the reflectance.
DielectricInteractNoSchlick(m, incident_ray, isect, gen) ==
    LET front_face == Dot(incident_ray.direction, isect.normal) <= 0
        normal == IF front_face THEN isect.normal ELSE VNeg(isect.normal)
        etai_over_etat == IF front_face THEN Div(U(1), m.ior) ELSE m.ior
        incident == Normalize(incident_ray.direction)
        refracted == Refract(incident, normal, etai_over_etat)
        scattered == IF refracted.some THEN refracted.value
                     ELSE Reflect(incident, normal)
    IN  Interaction(White, Ray(isect.point, scattered))

\* Dielectric::interact, gen being the value rng.gen() returns from [0, 1).
DielectricInteract(m, incident_ray, isect, gen) ==
    LET front_face == Dot(incident_ray.direction, isect.normal) <= 0
        normal == IF front_face THEN isect.normal ELSE VNeg(isect.normal)
        etai_over_etat == IF front_face THEN Div(U(1), m.ior) ELSE m.ior
        incident == Normalize(incident_ray.direction)
        refracted == Refract(incident, normal, etai_over_etat)
        scattered == IF Schlick(incident, normal, etai_over_etat) > gen
                     THEN Reflect(incident, normal)
                     ELSE IF refracted.some THEN refracted.value
                     ELSE Reflect(incident, normal)
    IN  Interaction(White, Ray(isect.point, scattered))

\* Material::interact: dispatch on the variant.
MaterialInteract(m, incident_ray, isect, draw) ==
    CASE m.kind = "Lambert" -> LambertInteract(m, incident_ray, isect, draw)
      [] m.kind = "None" -> NoInteraction

(***************************************************************************)
(* Scene                                                                   *)
(***************************************************************************)

\* Variant: the hit replaces the running result but the bound is not shrunk.
ScanStepKeepBound(st, object, ray, ray_t) ==
    LET i == ShapeIntersect(object, ray, Interval(ray_t.start, st.closest_t))
    IN  IF i.some THEN [closest_t |-> st.closest_t, intersection |-> i]
        ELSE st

\* Variant: the whole interval is searched and a hit replaces the running
\* result when it is not farther.
ScanStepLe(st, object, ray, ray_t) ==
    LET i == ShapeIntersect(object, ray, ray_t)
    IN  IF i.some /\ i.t <= st.closest_t
        THEN [closest_t |-> i.t, intersection |-> i]
        ELSE st

\* One iteration of the loop of Scene::intersect on the running state
\* st = [intersection, closest_t].
ScanStep(st, object, ray, ray_t) ==
    LET i == ShapeIntersect(object, ray, Interval(ray_t.start, st.closest_t))
    IN  IF i.some THEN [closest_t |-> i.t, intersection |-> i] ELSE st

RECURSIVE ScanFrom(_, _, _, _, _)
\* The loop of Scene::intersect from object k on.
ScanFrom(st, objs, k, ray, ray_t) ==
    IF k > Len(objs) THEN st
    ELSE ScanFrom(ScanStep(st, objs[k], ray, ray_t), objs, k + 1, ray, ray_t)

\* Variant: the search starts unbounded above.
ScanInitUnbounded(ray_t) == [closest_t |-> INFINITY, intersection |-> None]

\* The locals of Scene::intersect before the loop.
ScanInit(ray_t) == [closest_t |-> ray_t.end, intersection |-> None]

\* Scene::intersect as a function of the object list.
SceneIntersect(objs, ray, ray_t) ==
    ScanFrom(ScanInit(ray_t), objs, 1, ray, ray_t).intersection

(***************************************************************************)
(* Camera::ray_color                                                       *)
(***************************************************************************)

\* The interval ray_color searches: (0.001, +inf).
RayColorInterval == Interval(Scale \div 1000, INFINITY)

\* Variant: the background is white whatever the direction.
SkyWhite(ray) == White

\* The background of ray_color, from the y component of the direction.
Sky(ray) ==
    LET normalized_direction == Normalize(ray.direction)
        a == Mul(U(1) \div 2, normalized_direction[2] + U(1))
    IN  VAdd(SMul(U(1) - a, White),
             SMul(a, Color3f(Dec(5), Dec(7), U(1))))

\* Variant: the depth handed to the recursive call is not decremented.
NextDepthSame(depth) == depth

\* The depth ray_color hands to its recursive call.
NextDepth(depth) == depth - 1

\* Variant: the attenuation is added to the gathered colour.
AttenuateAdd(attenuation, gathered) == VAdd(attenuation, gathered)

\* What ray_color returns from the colour its recursive call gathered.
Attenuate(attenuation, gathered) == VMul(attenuation, gathered)

RECURSIVE RayColorValue(_, _, _, _, _)
\* Camera::ray_color as a function: draws[j] is the value the random
\* generator hands to the j-th material interaction of the sample.
RayColorValue(objs, r, depth, draws, j) ==
    IF depth <= 0 THEN Black
    ELSE LET isect == SceneIntersect(objs, r, RayColorInterval)
         IN  IF isect.some
             THEN LET iact == MaterialInteract(isect.material, r, isect,
                                               draws[j])
                  IN  IF iact.some
                      THEN Attenuate(iact.attenuation,
                                     RayColorValue(objs, iact.scattered_ray,
                                                   NextDepth(depth), draws,
                                                   j + 1))
                      ELSE Black
             ELSE Sky(r)

(***************************************************************************)
(* Camera                                                                  *)
(***************************************************************************)

\* Vector::cross.
Cross(a, b) ==
    <<Mul(a[2], b[3]) - Mul(a[3], b[2]),
      Mul(a[3], b[1]) - Mul(a[1], b[3]),
      Mul(a[1], b[2]) - Mul(a[2], b[1])>>

\* Camera::new: the fields of a camera of the given resolution (the caller
\* has passed the assertion image_width > 0 && image_height > 0).
CameraNew(image_width, image_height) ==
    [image_width |-> image_width,
     image_height |-> image_height,
     samples_per_pixel |-> 10,
     max_depth |-> 10,
     vfov |-> U(90),
     look_from |-> Point3f(0, 0, -U(1)),
     look_at |-> Point3f(0, 0, 0),
     view_up |-> Vector3f(0, U(1), 0),
     defocus_angle |-> 0,
     focus_distance |-> U(1),
     pixel00_location |-> Point3f(0, 0, 0),
     pixel_delta_u |-> Vector3f(0, 0, 0),
     pixel_delta_v |-> Vector3f(0, 0, 0),
     defocus_disk_u |-> Vector3f(0, 0, 0),
     defocus_disk_v |-> Vector3f(0, 0, 0)]

\* x.to_radians().tan() for the angles x (in degrees) the cameras of the
\* model are configured with.
TanDegrees(x) ==
    CASE x = 0 -> 0
      [] x = 26565 -> U(1) \div 2
      [] x = U(45) -> U(1)

\* (a as f32) / (b as f32) for u32 a and b > 0.
RatioU32(a, b) == RoundDiv(a * Scale, b)

\* The viewport state initialize derives from the configuration.
Viewport(c) ==
    LET aspect_ratio == RatioU32(c.image_width, c.image_height)
        h == TanDegrees(Div(c.vfov, U(2)))
        viewport_height == Mul(Mul(U(2), h), c.focus_distance)
        viewport_width == Mul(viewport_height, aspect_ratio)
        w == Normalize(VSub(c.look_from, c.look_at))
        u == Normalize(Cross(c.view_up, w))
        v == Cross(w, u)
        viewport_u == SMul(viewport_width, u)
        viewport_v == SMul(viewport_height, VNeg(v))
        pixel_delta_u == VDivS(viewport_u, U(c.image_width))
        pixel_delta_v == VDivS(viewport_v, U(c.image_height))
        viewport_top_left ==
            VSub(VSub(VSub(c.look_from, SMul(c.focus_distance, w)),
                      VDivS(viewport_u, U(2))),
                 VDivS(viewport_v, U(2)))
        defocus_radius ==
            Mul(c.focus_distance, TanDegrees(Div(c.defocus_angle, U(2))))
    IN  [pixel00_location |->
             VAdd(viewport_top_left,
                  SMul(U(1) \div 2, VAdd(pixel_delta_u, pixel_delta_v))),
         pixel_delta_u |-> pixel_delta_u,
         pixel_delta_v |-> pixel_delta_v,
         defocus_disk_u |-> SMul(defocus_radius, u),
         defocus_disk_v |-> SMul(defocus_radius, v)]

\* Variant: the derived state is left as it is.
InitializeStale(c) == c

\* Camera::initialize: the derived fields are recomputed, the configuration
\* is kept.
Initialize(c) ==
    LET d == Viewport(c)
    IN  [c EXCEPT !.pixel00_location = d.pixel00_location,
                  !.pixel_delta_u = d.pixel_delta_u,
                  !.pixel_delta_v = d.pixel_delta_v,
                  !.defocus_disk_u = d.defocus_disk_u,
                  !.defocus_disk_v = d.defocus_disk_v]

\* Variant: the draws are not shifted by -0.5.
SamplePixelSquareUnshifted(c, g) ==
    VAdd(SMul(g[1], c.pixel_delta_u), SMul(g[2], c.pixel_delta_v))

\* Camera::sample_pixel_square, g being the two values rng.gen() returns.
SamplePixelSquare(c, g) ==
    LET dx == (-(U(1) \div 2)) + g[1]
        dy == (-(U(1) \div 2)) + g[2]
    IN  VAdd(SMul(dx, c.pixel_delta_u), SMul(dy, c.pixel_delta_v))

\* Camera::sample_defocus_disk, g being the two values gen_range returns.
SampleDefocusDisk(c, g) ==
    LET drawn == Vector3f(g[1], g[2], 0)
        dv == IF LengthSquared(drawn) > U(1) THEN Normalize(drawn) ELSE drawn
    IN  VAdd(VAdd(c.look_from, SMul(dv[1], c.defocus_disk_u)),
             SMul(dv[2], c.defocus_disk_v))

\* Camera::get_ray for pixel x, y; d holds the values the generator
\* returns: d.square to sample_pixel_square, d.disk to sample_defocus_disk.
GetRay(c, x, y, d) ==
    LET pixel_center ==
            VAdd(VAdd(c.pixel00_location, SMul(U(x), c.pixel_delta_u)),
                 SMul(U(y), c.pixel_delta_v))
        pixel_sample == VAdd(pixel_center, SamplePixelSquare(c, d.square))
        ray_origin == IF c.defocus_angle <= 0 THEN c.look_from
                      ELSE SampleDefocusDisk(c, d.disk)
    IN  Ray(ray_origin, VSub(pixel_sample, ray_origin))

RECURSIVE SampleSum(_, _, _, _, _, _, _)
\* The value of a pixel after the first k passes of the sample loop of
\* render, from the value initial; stream[i] holds the draws of the i-th
\* sample.
SampleSum(c, objs, px, py, stream, k, initial) ==
    IF k = 0 THEN initial
    ELSE VAdd(SampleSum(c, objs, px, py, stream, k - 1, initial),
              RayColorValue(objs, GetRay(c, px, py, stream[k]), c.max_depth,
                            stream[k].scatter, 1))

RECURSIVE SampleMean(_, _, _, _, _, _, _)
\* Variant of the sample loop: the pixel is divided after every sample.
SampleMean(c, objs, px, py, stream, k, initial) ==
    IF k = 0 THEN initial
    ELSE VDivS(VAdd(SampleMean(c, objs, px, py, stream, k - 1, initial),
                    RayColorValue(objs, GetRay(c, px, py, stream[k]),
                                  c.max_depth, stream[k].scatter, 1)),
               U(c.samples_per_pixel))

PixelColorDividedEach(c, objs, px, py, stream, initial) ==
    SampleMean(c, objs, px, py, stream, c.samples_per_pixel, initial)

\* The colour render leaves in pixel x, y: the samples are added to the
\* pixel and the sum is averaged.
PixelColor(c, objs, px, py, stream, initial) ==
    VDivS(SampleSum(c, objs, px, py, stream, c.samples_per_pixel, initial),
          U(c.samples_per_pixel))

\* Chunks that start one pixel apart, so that rows overlap.
ChunkStartOverlap(y, width) == y

\* The first index of the chunk par_chunks_mut(width) hands to row y.
ChunkStart(y, width) == y * width

\* The number of chunks par_chunks_mut(width) cuts a buffer of len into.
ChunkCount(len, width) == (len + width - 1) \div width

\* The length of chunk y.
ChunkLen(y, len, width) == MinF(width, len - ChunkStart(y, width))

\* The base-256 digits of k >= 0, least significant first, n of them.
Digits(k, n) == [i \in 0..(n - 1) |-> (k \div (256 ^ i)) % 256]

RECURSIVE ColumnSum(_, _, _, _)
\* The sum of a[i] * b[k - i] for i in 0..j, digits above 3 being zero.
ColumnSum(a, b, k, j) ==
    IF j < 0 THEN 0
    ELSE ColumnSum(a, b, k, j - 1)
         + (IF j <= 3 /\ k - j >= 0 /\ k - j <= 3 THEN a[j] * b[k - j] ELSE 0)

RECURSIVE CarryInto(_, _, _)
\* The carry into digit k of the product of the digit strings a and b.
CarryInto(a, b, k) ==
    IF k = 0 THEN 0
    ELSE (ColumnSum(a, b, k - 1, k - 1) + CarryInto(a, b, k - 1)) \div 256

\* The 8 base-256 digits of a * b for a and b below 2^31.
WideProduct(a, b) ==
    LET da == Digits(a, 4)
        db == Digits(b, 4)
    IN  [k \in 0..7 |-> (ColumnSum(da, db, k, k) + CarryInto(da, db, k)) % 256]

\* u32 multiplication: whether a * b exceeds u32::MAX, and the low 32 bits
\* of the product as digits.
MulU32(a, b) ==
    LET p == WideProduct(a, b)
    IN  [overflow |-> \E k \in 4..7 : p[k] # 0,
         wrapped |-> [k \in 0..3 |-> p[k]]]

\* The number a digit string below 2^31 stands for.
FromDigits(d) == d[0] + 256 * d[1] + 65536 * d[2] + 16777216 * d[3]

(***************************************************************************)
(* Bounds and inputs                                                       *)
(***************************************************************************)

\* Largest number of objects added to a scene.
MaxObjects == 3

\* Largest max_depth a camera is configured with.
MaxDepth == 3

Origin == Point3f(0, 0, 0)

\* Spheres offered to Scene::add: a sphere of each unit test, a sphere that
\* ties with the first one along the x axis, and one the x axis is tangent
\* to.
Shapes ==
    { Sphere(Point3f(U(2), 0, 0), U(1), MaterialNone),
      Sphere(Point3f(U(3), 0, 0), U(2), Lambert(Color3f(U(1), U(1), 0))),
      Sphere(Point3f(U(3), U(1), 0), U(1), MaterialNone),
      Sphere(Point3f(0, U(3), 0), U(2), MaterialNone) }

\* Rays of the unit tests, a ray from a sphere's centre, a ray that misses
\* every sphere and a ray whose direction is not of unit length.
Rays ==
    { Ray(Origin, Vector3f(U(1), 0, 0)),
      Ray(Origin, Vector3f(0, U(1), 0)),
      Ray(Point3f(U(2), 0, 0), Vector3f(U(1), 0, 0)),
      Ray(Origin, Vector3f(U(1), 0, U(1))),
      Ray(Origin, Vector3f(U(2), U(1), 0)) }

Intervals ==
    { Interval(0, INFINITY), Interval(U(1), INFINITY),
      Interval(-INFINITY, INFINITY), Interval(-U(1), U(1)),
      Interval(Dec(35), U(10)), Interval(F32_MIN, U(1)) }

\* Intervals and values of the unit tests of Interval::contains.
TestIntervals ==
    Intervals \cup
    { Interval(U(2), U(5)), Interval(U(5), U(2)), Interval(U(2), U(2)),
      Interval(-INFINITY, 0), Interval(INFINITY, -INFINITY),
      Interval(0, U(1)) }

Values ==
    { -INFINITY, F32_MIN, 0, U(2), Dec(21), Dec(49), U(5), U(7),
      INFINITY - 1, INFINITY }

\* Scenes handed to ray_color: two spheres facing each other across the
\* origin, with scattering and absorbing materials.
RenderScenes ==
    LET grey == Lambert(Color3f(Dec(5), Dec(5), Dec(5)))
        yellow == Lambert(Color3f(U(1), U(1), 0))
        back == Point3f(0, 0, -U(2))
        front == Point3f(0, 0, U(2))
    IN  { <<Sphere(back, U(1), grey), Sphere(front, U(1), yellow)>>,
          <<Sphere(back, U(1), grey), Sphere(front, U(1), MaterialNone)>>,
          <<Sphere(front, U(1), yellow), Sphere(back, U(1), MaterialNone)>>,
          <<Sphere(back, U(1), grey)>> }

\* Primary rays handed to ray_color.
PrimaryRays ==
    { Ray(Origin, Vector3f(0, 0, -U(1))),
      Ray(Origin, Vector3f(0, 0, U(2))),
      Ray(Origin, Vector3f(0, U(1), 0)),
      Ray(Origin, Vector3f(U(1), -U(1), 0)) }

\* Values the random generator returns to random_unit_vector.
RandomDraws ==
    { Vector3f(0, 0, Dec(5)), Vector3f(0, 0, -U(1)),
      Vector3f(0, Dec(5), 0), Vector3f(-U(1), 0, 0) }

\* Largest number of setter calls made on a camera.
MaxSetterCalls == 2

\* Resolutions cameras are created with: small images and one whose pixel
\* count does not fit in a u32.
ImageSizes == { <<1, 1>>, <<2, 1>>, <<3, 2>>, <<65536, 65536>> }

\* Scenes handed to render.
CameraScenes ==
    { <<Sphere(Point3f(0, 0, U(2)), U(1), Lambert(Color3f(U(1), U(1), 0)))>>,
      <<Sphere(Point3f(0, 0, U(2)), U(1),
               Lambert(Color3f(Dec(5), Dec(5), Dec(5)))),
        Sphere(Point3f(0, 0, -U(2)), U(1), MaterialNone)>> }

\* The material of the small sphere of the two-sphere scene.
SmallMaterial == Lambert(Color3f(Dec(7), Dec(3), Dec(3)))

\* The two-sphere scene: a sphere of radius 0.5 at (0, 0, -1) resting on a
\* ground sphere whose top is at y = -0.5.  The ground sphere has radius
\* GroundRadius instead of 100: the squares of a radius of 100 do not fit
\* the integers of the model.
GroundRadius == U(10)

TwoSphereScene ==
    <<Sphere(Point3f(0, 0, -U(1)), Dec(5), SmallMaterial),
      Sphere(Point3f(0, -(GroundRadius + Dec(5)), -U(1)), GroundRadius,
             Lambert(Color3f(Dec(8), Dec(8), 0)))>>

\* Resolutions of the renders of the two-sphere scene.
TwoSphereSizes == { <<3, 3>>, <<4, 2>> }

\* Where the cameras of the two-sphere scene stand and look: the pair
\* Camera::new sets, and the origin looking down the negative z axis.
TwoSphereViews ==
    { <<Point3f(0, 0, -U(1)), Point3f(0, 0, 0)>>,
      <<Point3f(0, 0, 0), Point3f(0, 0, -U(1))>> }

\* Values the setters are called with.
SamplesValues == {1, 2}

DepthValues == {2}

VfovValues == {53130}

LookFromValues == { Point3f(0, 0, -U(2)) }

LookAtValues == { Point3f(U(1), 0, 0) }

ViewUpValues == { Vector3f(U(1), 0, 0) }

DefocusValues == { U(90) }

FocusValues == { U(2) }

\* Names of the random streams a render may be given.
Seeds == {1, 2}

\* Values rng.gen() and gen_range(-1.0..1.0) return, and values handed to
\* random_unit_vector, in the order the streams cycle through them.
GenList == <<0, U(1) \div 2, U(1) \div 4, U(1) - 1>>

DiskList == <<Dec(5), -Dec(9), 0, Dec(9)>>

DrawList ==
    << Vector3f(Dec(5), Dec(5), -Dec(5)), Vector3f(0, 0, -U(1)),
       Vector3f(0, Dec(5), 0), Vector3f(-U(1), 0, 0) >>

\* The draws the generator hands to pixel px, py under stream sd: for each
\* of up to 10 samples the values for the pixel square, the defocus disk
\* and up to 10 material interactions.
Stream(sd, px, py) ==
    [k \in 1..10 |->
        [square |-> <<GenList[1 + ((sd + px + k) % 4)],
                      GenList[1 + ((2 * sd + py + k) % 4)]>>,
         disk |-> <<DiskList[1 + ((sd + py + k) % 4)],
                    DiskList[1 + ((sd + px + 2 * k) % 4)]>>,
         scatter |-> [j \in 1..10 |->
                         DrawList[1 + ((sd + px + 2 * py + k + j) % 4)]]]]

\* Directions of the rays handed to the interact methods: the one of the
\* unit tests, rays that arrive from behind the normal, a steep and a
\* head-on ray.
Incidents ==
    { Vector3f(U(2), -U(2), 0), Vector3f(U(2), U(2), 0),
      Vector3f(U(1), U(3), 0), Vector3f(0, -U(1), 0),
      Vector3f(U(3), -U(1), 0) }

\* Unit normals of the intersections handed to the interact methods.
Normals ==
    { Vector3f(0, U(1), 0), Vector3f(Dec(6), Dec(8), 0),
      Vector3f(0, 0, -U(1)) }

\* Intersection points.
HitPoints == { Point3f(U(1), U(1), U(1)) }

\* Albedos and fuzz factors of the materials called.
Albedos == { Color3f(U(1), U(1), 0) }

FuzzValues == { 0, Dec(5), U(1), U(2) }

\* Image dimensions handed to Camera::new, and fuzz factors handed to
\* Metal::new: below, in and above [0, 1], and NaN.
Dimensions == {0, 1, 2}

NewFuzzValues == { -U(1), Dec(5), U(2), NAN }

\* Values rng.gen() returns to sample_pixel_square, the ends of [0, 1), and
\* values gen_range(-1.0..1.0) returns to sample_defocus_disk: pairs inside
\* the unit disk and outside it.
SquareValues == { 0, U(1) - 1 }

DiskValues == { Dec(3), -Dec(9), 0, U(1) - 1 }

\* Pixels get_ray is called for.
PixelRange == 0..1

\* Refractive indices: glass, and none.
IorValues == { U(1) + Dec(5), U(1) }

\* Values the generator hands to random_unit_vector in Lambert::interact:
\* a grid of draws about the opposite of the slanted normal, the opposite of
\* the upward normal, and draws away from both.
LambertDraws ==
    { Vector3f(-a * 50, -b * 50, 0) : a \in 10..14, b \in 14..18 }
    \cup { Vector3f(0, -Dec(5), 0), Vector3f(Dec(5), Dec(5), Dec(5)),
           Vector3f(0, 0, Dec(5)) }

\* Values the generator hands to random_unit_vector in Metal::interact.
MetalDraws ==
    { Vector3f(-Dec(5), -Dec(5), 0), Vector3f(Dec(5), Dec(5), Dec(5)),
      Vector3f(0, -Dec(5), 0) }

\* Values rng.gen() returns in Dielectric::interact, from [0, 1).
GenValues == { 0, 20, U(1) \div 2, U(1) - 1 }

\* Vectors reflected, and the unit normals they are reflected at.
ReflectVectors ==
    { Vector3f(U(2), -U(2), 0), Vector3f(U(1), 0, 0),
      Vector3f(Dec(3), -Dec(7), U(2)), Vector3f(0, 0, 0),
      Vector3f(-U(1), U(5), Dec(1)), Vector3f(333, 667, 0) }

ReflectNormals ==
    { Vector3f(0, U(1), 0), Vector3f(-U(1), 0, 0), Vector3f(0, 0, U(1)),
      Vector3f(Dec(6), Dec(8), 0), Vector3f(0, -Dec(8), Dec(6)) }

\* Unit vectors refracted at the unit normal (0, 1, 0) they point against.
RefractVectors ==
    { Vector3f(0, -U(1), 0), Vector3f(Dec(6), -Dec(8), 0),
      Vector3f(Dec(8), -Dec(6), 0), Vector3f(960, -280, 0),
      Vector3f(0, -Dec(6), -Dec(8)), Vector3f(707, -707, 0),
      Vector3f(U(1), -20, 0) }

RefractNormals == { Vector3f(0, U(1), 0) }

\* Ratios of refractive indices.
EtaValues == { U(1), 667, U(1) + Dec(5) }

\* The operator symbols impl_binary_op! is instantiated with.
Operators == { "+", "-", "*", "/" }

\* Scalar and vector operands of the operators: the ones of the unit tests
\* and others, no scalar and no component being zero.
OperandScalars == { U(1), U(3), U(6), Dec(5), -U(2) }

OperandVectors ==
    { Vector3f(U(1), U(2), U(3)), Vector3f(U(2), U(3), U(4)),
      Vector3f(U(6), U(3), U(2)), Vector3f(Dec(5), -U(1), U(4)) }

(***************************************************************************)
(* State                                                                   *)
(***************************************************************************)

VARIABLES
    objects,       \* Scene.objects
    pc,            \* operation in progress or last finished
    ray,           \* argument ray of the current call
    ray_t,         \* argument interval of the current call
    idx,           \* position of the iterator of Scene::intersect
    intersection,  \* local of Scene::intersect
    closest_t,     \* local of Scene::intersect
    result,        \* value returned by the last intersect call
    sphere,        \* receiver of the last direct Sphere::intersect call
    x,             \* argument of the last Interval::contains call, or the
                   \* pixel <<x, y>> of the last direct get_ray call
    contained,     \* value returned by the last Interval::contains call
    max_depth,     \* Camera.max_depth, the depth of the outermost ray_color
    depth,         \* argument depth of the innermost ray_color call
    stack,         \* attenuations held by the suspended ray_color calls
    color,         \* value returned by the innermost finished ray_color
    path,          \* history: attenuations of the bounces of this sample
    ending,        \* history: how the innermost call of this sample ended
    n_intersect,   \* history: scene.intersect calls made for this sample
    n_scatter,     \* history: material interact calls made for this sample
    camera,        \* the Camera: configuration and derived viewport fields
    pixels,        \* the buffer render fills and returns
    progress,      \* the AtomicU32 progress counter of the render loop
    printed,       \* history: progress values written to stdout
    row_x,         \* per row of the render loop: pixels finished by its worker
    reported,      \* rows whose worker has advanced the progress counter
    seed,          \* names the random streams of the running render
    n_setters,     \* history: setter calls made on the camera
    material,      \* receiver of the last direct interact call
    isect_in,      \* argument intersection of the last interact call
    rng,           \* value the random generator returned to the last call
    iact_out,      \* value returned by the last interact call
    vec_v,         \* receiver of the last reflect / refract call
    vec_n,         \* argument normal of the last reflect / refract call
    eta,           \* argument etai_over_etat of the last refract call
    vec_out,       \* value returned by the last vector method or operator
    op             \* operator symbol of the last operator call

scene_vars ==
    <<idx, intersection, closest_t, result, sphere, x, contained>>

color_vars ==
    <<max_depth, depth, stack, color, path, ending, n_intersect, n_scatter>>

camera_vars ==
    <<camera, pixels, progress, printed, row_x, reported, seed, n_setters>>

call_vars ==
    <<material, isect_in, rng, iact_out, vec_v, vec_n, eta, vec_out, op>>

vars ==
    <<objects, pc, ray, ray_t, idx, intersection, closest_t, result, sphere,
      x, contained, max_depth, depth, stack, color, path, ending,
      n_intersect, n_scatter, camera, pixels, progress, printed, row_x,
      reported, seed, n_setters, material, isect_in, rng, iact_out, vec_v, vec_n,
      eta, vec_out, op>>

NoRay == Ray(Origin, Origin)

NoInterval == Interval(0, 0)

NoSphere == Sphere(Origin, 0, MaterialNone)

\* No camera has rendered: the buffer and the loop state are empty.
CameraIdle ==
    /\ pixels = <<>>
    /\ progress = 0
    /\ printed = <<>>
    /\ row_x = <<>>
    /\ reported = {}
    /\ seed = 0
    /\ n_setters = 0

\* No direct call of a material or vector operation has been made.
CallIdle ==
    /\ material = MaterialNone
    /\ isect_in = None
    /\ rng = 0
    /\ iact_out = NoInteraction
    /\ vec_v = Origin
    /\ vec_n = Origin
    /\ eta = 0
    /\ vec_out = NoVector
    /\ op = "none"

\* Scene::new: no objects, no call made yet.
Init ==
    /\ objects = <<>>
    /\ pc = "idle"
    /\ ray = NoRay
    /\ ray_t = NoInterval
    /\ idx = 0
    /\ intersection = None
    /\ closest_t = 0
    /\ result = None
    /\ sphere = NoSphere
    /\ x = 0
    /\ contained = FALSE
    /\ max_depth = 0
    /\ depth = 0
    /\ stack = <<>>
    /\ color = Black
    /\ path = <<>>
    /\ ending = "none"
    /\ n_intersect = 0
    /\ n_scatter = 0
    /\ camera = CameraNew(1, 1)
    /\ CameraIdle
    /\ CallIdle

\* No call is in progress and no result is held: a call made in any other
\* state would run from the same objects, which calls never change.
Quiet == pc = "idle"

\* Scene::add.
Add(object) ==
    /\ pc # "scan"
    /\ Len(objects) < MaxObjects
    /\ objects' = Append(objects, object)
    /\ pc' = "idle"
    /\ ray' = NoRay
    /\ ray_t' = NoInterval
    /\ idx' = 0
    /\ intersection' = None
    /\ closest_t' = 0
    /\ result' = None
    /\ sphere' = NoSphere
    /\ x' = 0
    /\ contained' = FALSE
    /\ UNCHANGED color_vars
    /\ UNCHANGED <<camera_vars, call_vars>>

\* Scene::intersect, entry: the locals are initialised.
IntersectBegin(r, iv) ==
    /\ Quiet
    /\ pc' = "scan"
    /\ ray' = r
    /\ ray_t' = iv
    /\ idx' = 1
    /\ intersection' = ScanInit(iv).intersection
    /\ closest_t' = ScanInit(iv).closest_t
    /\ result' = None
    /\ sphere' = NoSphere
    /\ x' = 0
    /\ contained' = FALSE
    /\ UNCHANGED <<objects, color_vars>>
    /\ UNCHANGED <<camera_vars, call_vars>>

\* Scene::intersect, one iteration of the loop.
IntersectStep ==
    /\ pc = "scan"
    /\ idx <= Len(objects)
    /\ LET st == ScanStep([closest_t |-> closest_t,
                           intersection |-> intersection],
                          objects[idx], ray, ray_t)
       IN  /\ intersection' = st.intersection
           /\ closest_t' = st.closest_t
    /\ idx' = idx + 1
    /\ UNCHANGED <<objects, pc, ray, ray_t, result, sphere, x, contained,
                   color_vars>>
    /\ UNCHANGED <<camera_vars, call_vars>>

\* Scene::intersect, exit: the running result is returned.
IntersectReturn ==
    /\ pc = "scan"
    /\ idx > Len(objects)
    /\ pc' = "done"
    /\ result' = intersection
    /\ UNCHANGED <<objects, ray, ray_t, idx, intersection, closest_t, sphere,
                   x, contained, color_vars>>
    /\ UNCHANGED <<camera_vars, call_vars>>

\* A direct call of Sphere::intersect on a sphere the scene holds.
SphereCall(s, r, iv) ==
    /\ Quiet
    /\ pc' = "sphere"
    /\ sphere' = s
    /\ ray' = r
    /\ ray_t' = iv
    /\ result' = SphereIntersect(s, r, iv)
    /\ idx' = 0
    /\ intersection' = None
    /\ closest_t' = 0
    /\ x' = 0
    /\ contained' = FALSE
    /\ UNCHANGED <<objects, color_vars>>
    /\ UNCHANGED <<camera_vars, call_vars>>

\* A call of Interval::contains.
ContainsCall(iv, v) ==
    /\ Quiet
    /\ pc' = "contains"
    /\ ray_t' = iv
    /\ x' = v
    /\ contained' = Contains(iv, v)
    /\ ray' = NoRay
    /\ idx' = 0
    /\ intersection' = None
    /\ closest_t' = 0
    /\ result' = None
    /\ sphere' = NoSphere
    /\ UNCHANGED <<objects, color_vars>>
    /\ UNCHANGED <<camera_vars, call_vars>>

Next ==
    \/ \E object \in Shapes : Add(object)
    \/ \E r \in Rays, iv \in Intervals : IntersectBegin(r, iv)
    \/ IntersectStep
    \/ IntersectReturn
    \/ \E i \in 1..Len(objects), r \in Rays, iv \in Intervals :
          SphereCall(objects[i], r, iv)

\* The scene: objects are added and intersect is called on the scene and on
\* its spheres.
Spec == Init /\ [][Next]_vars

IntervalNext == \E iv \in TestIntervals, v \in Values : ContainsCall(iv, v)

\* Interval::contains alone.
IntervalSpec == Init /\ [][IntervalNext]_vars

(***************************************************************************)
(* Camera::ray_color, one action per branch of a call and per return       *)
(***************************************************************************)

\* A scene has been built and no call has been made.
RayColorInit ==
    /\ objects \in RenderScenes
    /\ pc = "idle"
    /\ ray = NoRay
    /\ ray_t = NoInterval
    /\ idx = 0
    /\ intersection = None
    /\ closest_t = 0
    /\ result = None
    /\ sphere = NoSphere
    /\ x = 0
    /\ contained = FALSE
    /\ max_depth = 0
    /\ depth = 0
    /\ stack = <<>>
    /\ color = Black
    /\ path = <<>>
    /\ ending = "none"
    /\ n_intersect = 0
    /\ n_scatter = 0
    /\ camera = CameraNew(1, 1)
    /\ CameraIdle
    /\ CallIdle

\* set_max_depth(d), then the render loop calls ray_color(r, max_depth).
RayColorBegin(r, d) ==
    /\ pc = "idle"
    /\ pc' = "color"
    /\ ray' = r
    /\ max_depth' = d
    /\ depth' = d
    /\ stack' = <<>>
    /\ color' = Black
    /\ path' = <<>>
    /\ ending' = "none"
    /\ n_intersect' = 0
    /\ n_scatter' = 0
    /\ UNCHANGED <<objects, ray_t, scene_vars>>
    /\ UNCHANGED <<camera_vars, call_vars>>

\* ray_color: the recursion limit is reached.
RayColorExhausted ==
    /\ pc = "color"
    /\ depth <= 0
    /\ pc' = "unwind"
    /\ color' = Black
    /\ ending' = "depth"
    /\ UNCHANGED <<objects, ray, ray_t, scene_vars, max_depth, depth, stack,
                   path, n_intersect, n_scatter>>
    /\ UNCHANGED <<camera_vars, call_vars>>

\* ray_color: the ray hits, the material scatters it and the call recurses.
RayColorScatter(draw) ==
    /\ pc = "color"
    /\ depth > 0
    /\ \E isect \in {SceneIntersect(objects, ray, RayColorInterval)} :
         /\ isect.some
         /\ \E iact \in {MaterialInteract(isect.material, ray, isect, draw)} :
              /\ iact.some
              /\ stack' = Append(stack, iact.attenuation)
              /\ path' = Append(path, iact.attenuation)
              /\ ray' = iact.scattered_ray
    /\ depth' = NextDepth(depth)
    /\ n_intersect' = n_intersect + 1
    /\ n_scatter' = n_scatter + 1
    /\ UNCHANGED <<objects, pc, ray_t, scene_vars, max_depth, color, ending>>
    /\ UNCHANGED <<camera_vars, call_vars>>

\* ray_color: the ray hits and the material absorbs it.
RayColorAbsorb(draw) ==
    /\ pc = "color"
    /\ depth > 0
    /\ \E isect \in {SceneIntersect(objects, ray, RayColorInterval)} :
         /\ isect.some
         /\ ~MaterialInteract(isect.material, ray, isect, draw).some
    /\ pc' = "unwind"
    /\ color' = Black
    /\ ending' = "absorbed"
    /\ n_intersect' = n_intersect + 1
    /\ n_scatter' = n_scatter + 1
    /\ UNCHANGED <<objects, ray, ray_t, scene_vars, max_depth, depth, stack,
                   path>>
    /\ UNCHANGED <<camera_vars, call_vars>>

\* ray_color: the ray hits nothing and the background is returned.
RayColorEscape ==
    /\ pc = "color"
    /\ depth > 0
    /\ ~SceneIntersect(objects, ray, RayColorInterval).some
    /\ pc' = "unwind"
    /\ color' = Sky(ray)
    /\ ending' = "escape"
    /\ n_intersect' = n_intersect + 1
    /\ UNCHANGED <<objects, ray, ray_t, scene_vars, max_depth, depth, stack,
                   path, n_scatter>>
    /\ UNCHANGED <<camera_vars, call_vars>>

\* ray_color: a recursive call has returned to its caller, which attenuates
\* the colour and returns in turn.
RayColorReturn ==
    /\ pc = "unwind"
    /\ stack # <<>>
    /\ color' = Attenuate(stack[Len(stack)], color)
    /\ stack' = SubSeq(stack, 1, Len(stack) - 1)
    /\ UNCHANGED <<objects, pc, ray, ray_t, scene_vars, max_depth, depth,
                   path, ending, n_intersect, n_scatter>>
    /\ UNCHANGED <<camera_vars, call_vars>>

\* ray_color: the outermost call has returned to the render loop.
RayColorDone ==
    /\ pc = "unwind"
    /\ stack = <<>>
    /\ pc' = "colored"
    /\ UNCHANGED <<objects, ray, ray_t, scene_vars, color_vars>>
    /\ UNCHANGED <<camera_vars, call_vars>>

\* The steps of a running evaluation.
RayColorRun ==
    \/ RayColorExhausted
    \/ \E draw \in RandomDraws : RayColorScatter(draw)
    \/ \E draw \in RandomDraws : RayColorAbsorb(draw)
    \/ RayColorEscape
    \/ RayColorReturn
    \/ RayColorDone

RayColorNext ==
    \/ \E r \in PrimaryRays, d \in 0..MaxDepth : RayColorBegin(r, d)
    \/ RayColorExhausted
    \/ \E draw \in RandomDraws : RayColorScatter(draw)
    \/ \E draw \in RandomDraws : RayColorAbsorb(draw)
    \/ RayColorEscape
    \/ RayColorReturn
    \/ RayColorDone

\* Samples of ray_color on built scenes.
RayColorSpec == RayColorInit /\ [][RayColorNext]_vars

\* The same, with the evaluation scheduled: a call that has been made keeps
\* running, as the worker thread evaluating it does.
RayColorFairSpec == RayColorSpec /\ WF_vars(RayColorRun)

(***************************************************************************)
(* Camera: setters and render                                              *)
(***************************************************************************)

\* Every variable of the scene, ray_color and direct calls but objects.
other_vars ==
    <<ray, ray_t, scene_vars, color_vars, call_vars>>

\* A scene has been built and a camera has been created.
RenderInit ==
    /\ objects \in CameraScenes
    /\ \E size \in ImageSizes : camera = CameraNew(size[1], size[2])
    /\ pc = "idle"
    /\ ray = NoRay
    /\ ray_t = NoInterval
    /\ idx = 0
    /\ intersection = None
    /\ closest_t = 0
    /\ result = None
    /\ sphere = NoSphere
    /\ x = 0
    /\ contained = FALSE
    /\ max_depth = 0
    /\ depth = 0
    /\ stack = <<>>
    /\ color = Black
    /\ path = <<>>
    /\ ending = "none"
    /\ n_intersect = 0
    /\ n_scatter = 0
    /\ CameraIdle
    /\ CallIdle

\* A setter call: render is not running (it borrows the camera mutably),
\* and an image returned earlier is no longer looked at.
Configure(c) ==
    /\ pc \in {"idle", "rendered"}
    /\ n_setters < MaxSetterCalls
    /\ camera' = c
    /\ n_setters' = n_setters + 1
    /\ pc' = "idle"
    /\ pixels' = <<>>
    /\ progress' = 0
    /\ printed' = <<>>
    /\ row_x' = <<>>
    /\ reported' = {}
    /\ seed' = 0
    /\ UNCHANGED <<objects, other_vars>>

\* Camera::set_samples_per_pixel.
SetSamplesPerPixel(n) == Configure([camera EXCEPT !.samples_per_pixel = n])

\* Camera::set_max_depth.
SetMaxDepth(n) == Configure([camera EXCEPT !.max_depth = n])

\* Camera::set_vfov.
SetVfov(a) == Configure([camera EXCEPT !.vfov = a])

\* Camera::set_look_from.
SetLookFrom(p) == Configure([camera EXCEPT !.look_from = p])

\* Camera::set_look_at.
SetLookAt(p) == Configure([camera EXCEPT !.look_at = p])

\* Camera::set_view_up.
SetViewUp(v) == Configure([camera EXCEPT !.view_up = v])

\* Camera::set_defocus_angle.
SetDefocusAngle(a) == Configure([camera EXCEPT !.defocus_angle = a])

\* Camera::set_focus_distance.
SetFocusDistance(d) == Configure([camera EXCEPT !.focus_distance = d])

\* Camera::render up to the start of the parallel loop: initialize, the
\* buffer of (image_width * image_height) as usize black pixels, the
\* progress counter.  The product is a u32 product: where it overflows this
\* is the build without overflow checks, which keeps the low 32 bits.
RenderBegin(sd) ==
    /\ pc \in {"idle", "rendered"}
    /\ \E c \in {Initialize(camera)} :
         \E len \in {FromDigits(MulU32(c.image_width,
                                       c.image_height).wrapped)} :
            /\ camera' = c
            /\ pixels' = [i \in 1..len |-> Black]
            /\ row_x' = [y \in 0..(ChunkCount(len, c.image_width) - 1) |-> 0]
    /\ progress' = 0
    /\ printed' = <<>>
    /\ reported' = {}
    /\ seed' = sd
    /\ pc' = "render"
    /\ UNCHANGED <<objects, other_vars, n_setters>>

\* Camera::render in a build with overflow checks, where the u32 product
\* overflows: the multiplication panics after initialize has run.
RenderOverflow ==
    /\ pc \in {"idle", "rendered"}
    /\ MulU32(camera.image_width, camera.image_height).overflow
    /\ camera' = Initialize(camera)
    /\ pc' = "panic"
    /\ pixels' = <<>>
    /\ progress' = 0
    /\ printed' = <<>>
    /\ row_x' = <<>>
    /\ reported' = {}
    /\ seed' = 0
    /\ UNCHANGED <<objects, other_vars, n_setters>>

\* The worker of row y renders the next pixel of its chunk.
RenderPixel(y) ==
    /\ pc = "render"
    /\ y \in DOMAIN row_x
    /\ row_x[y] < ChunkLen(y, Len(pixels), camera.image_width)
    /\ \E i \in {ChunkStart(y, camera.image_width) + row_x[y] + 1} :
         pixels' = [pixels EXCEPT
                      ![i] = PixelColor(camera, objects, row_x[y], y,
                                        Stream(seed, row_x[y], y), pixels[i])]
    /\ row_x' = [row_x EXCEPT ![y] = row_x[y] + 1]
    /\ UNCHANGED <<objects, other_vars, pc, camera, progress, printed,
                   reported, seed, n_setters>>

\* A report that does not wait for the pixels of its own row.
RenderRowDoneEarly(y) ==
    /\ pc = "render"
    /\ y \in DOMAIN row_x
    /\ y \notin reported
    /\ progress' = progress + 1
    /\ printed' = Append(printed, progress)
    /\ reported' = reported \cup {y}
    /\ UNCHANGED <<objects, other_vars, pc, camera, pixels, row_x, seed,
                   n_setters>>

\* A report that stores 1 in the counter instead of adding 1 to it.
RenderRowDoneStore(y) ==
    /\ pc = "render"
    /\ y \in DOMAIN row_x
    /\ y \notin reported
    /\ row_x[y] = ChunkLen(y, Len(pixels), camera.image_width)
    /\ progress' = 1
    /\ printed' = Append(printed, progress)
    /\ reported' = reported \cup {y}
    /\ UNCHANGED <<objects, other_vars, pc, camera, pixels, row_x, seed,
                   n_setters>>

\* The worker of row y has finished its chunk: progress.fetch_add(1) and
\* the print of the value fetched.
RenderRowDone(y) ==
    /\ pc = "render"
    /\ y \in DOMAIN row_x
    /\ y \notin reported
    /\ row_x[y] = ChunkLen(y, Len(pixels), camera.image_width)
    /\ progress' = progress + 1
    /\ printed' = Append(printed, progress)
    /\ reported' = reported \cup {y}
    /\ UNCHANGED <<objects, other_vars, pc, camera, pixels, row_x, seed,
                   n_setters>>

\* Every worker has finished: render returns the buffer.
RenderReturn ==
    /\ pc = "render"
    /\ reported = DOMAIN row_x
    /\ pc' = "rendered"
    /\ UNCHANGED <<objects, other_vars, camera_vars>>

RenderNext ==
    \/ \E n \in SamplesValues : SetSamplesPerPixel(n)
    \/ \E n \in DepthValues : SetMaxDepth(n)
    \/ \E a \in VfovValues : SetVfov(a)
    \/ \E p \in LookFromValues : SetLookFrom(p)
    \/ \E p \in LookAtValues : SetLookAt(p)
    \/ \E v \in ViewUpValues : SetViewUp(v)
    \/ \E a \in DefocusValues : SetDefocusAngle(a)
    \/ \E d \in FocusValues : SetFocusDistance(d)
    \/ \E sd \in Seeds : RenderBegin(sd)
    \/ RenderOverflow
    \/ \E y \in DOMAIN row_x : RenderPixel(y)
    \/ \E y \in DOMAIN row_x : RenderRowDone(y)
    \/ RenderReturn

\* A camera is configured and renders a scene, any number of times.
RenderSpec == RenderInit /\ [][RenderNext]_vars

\* The two-sphere scene has been built and a camera has been created and
\* set to one sample per pixel and a maximum depth of 1 (set_samples_per_pixel,
\* set_max_depth, set_look_from, set_look_at).
TwoSphereInit ==
    /\ objects = TwoSphereScene
    /\ \E size \in TwoSphereSizes : \E view \in TwoSphereViews :
          camera = [CameraNew(size[1], size[2]) EXCEPT
                      !.samples_per_pixel = 1, !.max_depth = 1,
                      !.look_from = view[1], !.look_at = view[2]]
    /\ pc = "idle"
    /\ ray = NoRay
    /\ ray_t = NoInterval
    /\ idx = 0
    /\ intersection = None
    /\ closest_t = 0
    /\ result = None
    /\ sphere = NoSphere
    /\ x = 0
    /\ contained = FALSE
    /\ max_depth = 0
    /\ depth = 0
    /\ stack = <<>>
    /\ color = Black
    /\ path = <<>>
    /\ ending = "none"
    /\ n_intersect = 0
    /\ n_scatter = 0
    /\ CameraIdle
    /\ CallIdle

TwoSphereNext ==
    \/ \E sd \in Seeds : RenderBegin(sd)
    \/ \E y \in DOMAIN row_x : RenderPixel(y)
    \/ \E y \in DOMAIN row_x : RenderRowDone(y)
    \/ RenderReturn

\* The two-sphere scene is rendered, any number of times.
TwoSphereSpec == TwoSphereInit /\ [][TwoSphereNext]_vars

(***************************************************************************)
(* Materials and vectors called directly                                   *)
(***************************************************************************)

\* Every variable but the ones of a direct call.
uncalled_vars ==
    <<objects, ray_t, scene_vars, color_vars, camera, camera_vars>>

\* Nothing has been called.
CallInit ==
    /\ objects = <<>>
    /\ camera = CameraNew(1, 1)
    /\ pc = "idle"
    /\ ray = NoRay
    /\ ray_t = NoInterval
    /\ idx = 0
    /\ intersection = None
    /\ closest_t = 0
    /\ result = None
    /\ sphere = NoSphere
    /\ x = 0
    /\ contained = FALSE
    /\ max_depth = 0
    /\ depth = 0
    /\ stack = <<>>
    /\ color = Black
    /\ path = <<>>
    /\ ending = "none"
    /\ n_intersect = 0
    /\ n_scatter = 0
    /\ CameraIdle
    /\ CallIdle

\* A call of material m's interact with incident ray r, intersection i and
\* generator output g has returned out.
Interacted(name, m, r, i, g, out) ==
    /\ pc' = name
    /\ material' = m
    /\ ray' = r
    /\ isect_in' = i
    /\ rng' = g
    /\ iact_out' = out
    /\ vec_v' = Origin
    /\ vec_n' = Origin
    /\ eta' = 0
    /\ vec_out' = NoVector
    /\ op' = "none"
    /\ UNCHANGED uncalled_vars

\* Metal::interact.
MetalCall(m, r, i, draw) ==
    \E out \in {MetalInteract(m, r, i, draw)} :
        Interacted("metal", m, r, i, draw, out)

\* Lambert::interact.
LambertCall(m, r, i, draw) ==
    \E out \in {LambertInteract(m, r, i, draw)} :
        Interacted("lambert", m, r, i, draw, out)

\* Dielectric::interact.
DielectricCall(m, r, i, gen) ==
    \E out \in {DielectricInteract(m, r, i, gen)} :
        Interacted("dielectric", m, r, i, gen, out)

\* A vector method called on v with normal n and ratio e has returned out.
Computed(name, v, n, e, out) ==
    /\ pc' = name
    /\ vec_v' = v
    /\ vec_n' = n
    /\ eta' = e
    /\ vec_out' = out
    /\ material' = MaterialNone
    /\ ray' = NoRay
    /\ isect_in' = None
    /\ rng' = 0
    /\ iact_out' = NoInteraction
    /\ op' = "none"
    /\ UNCHANGED uncalled_vars

\* Vector::reflect.
ReflectCall(v, n) ==
    \E out \in {SomeVector(Reflect(v, n))} : Computed("reflect", v, n, 0, out)

\* Vector::refract.
RefractCall(v, n, e) ==
    \E out \in {Refract(v, n, e)} : Computed("refract", v, n, e, out)

CallNext ==
    \/ \E a \in Albedos, f \in FuzzValues, d \in Incidents, n \in Normals,
          p \in HitPoints, draw \in MetalDraws :
          MetalCall(Metal(a, f), Ray(Origin, d),
                    Intersection(p, Metal(a, f), n, U(1)), draw)
    \/ \E a \in Albedos, d \in Incidents, n \in Normals, p \in HitPoints,
          draw \in LambertDraws :
          LambertCall(Lambert(a), Ray(Origin, d),
                      Intersection(p, Lambert(a), n, U(1)), draw)
    \/ \E ior \in IorValues, d \in Incidents, n \in Normals, p \in HitPoints,
          gen \in GenValues :
          DielectricCall(Dielectric(ior), Ray(Origin, d),
                         Intersection(p, Dielectric(ior), n, U(1)), gen)
    \/ \E v \in ReflectVectors, n \in ReflectNormals : ReflectCall(v, n)
    \/ \E v \in RefractVectors, n \in RefractNormals, e \in EtaValues :
          RefractCall(v, n, e)

\* Materials and vector methods are called with any of the inputs, in any
\* order.
CallSpec == CallInit /\ [][CallNext]_vars

(***************************************************************************)
(* Construction                                                            *)
(***************************************************************************)

\* Camera::new: the assertion panics for a zero dimension, and no camera is
\* created; otherwise the new camera takes the place of the one held.
CameraNewCall(w, h) ==
    /\ pc \in {"idle", "rendered"}
    /\ IF w > 0 /\ h > 0
       THEN /\ camera' = CameraNew(w, h)
            /\ pc' = "idle"
            /\ pixels' = <<>>
            /\ progress' = 0
            /\ printed' = <<>>
            /\ row_x' = <<>>
            /\ reported' = {}
            /\ seed' = 0
       ELSE /\ pc' = "panic"
            /\ UNCHANGED <<camera, pixels, progress, printed, row_x, reported,
                           seed>>
    /\ UNCHANGED <<objects, other_vars, n_setters>>

\* Metal::new: the new material takes the place of the one held.
MetalNewCall(albedo, fuzz) ==
    /\ pc \in {"idle", "rendered"}
    /\ material' = Metal(albedo, fuzz)
    /\ isect_in' = None
    /\ rng' = 0
    /\ iact_out' = NoInteraction
    /\ UNCHANGED <<objects, pc, ray, ray_t, scene_vars, color_vars, camera,
                   camera_vars, vec_v, vec_n, eta, vec_out, op>>

\* Metal::interact on the material held (a fuzz factor of NaN makes the
\* scattered direction NaN, which is outside the numbers of the model).
MetalScatterCall(r, i, draw) ==
    /\ pc \in {"idle", "rendered"}
    /\ material.kind = "Metal"
    /\ material.fuzz # NAN
    /\ \E out \in {MetalInteract(material, r, i, draw)} : iact_out' = out
    /\ isect_in' = i
    /\ rng' = draw
    /\ UNCHANGED <<objects, pc, ray, ray_t, scene_vars, color_vars, camera,
                   camera_vars, material, vec_v, vec_n, eta, vec_out, op>>

ContractNext ==
    \/ \E w \in Dimensions, h \in Dimensions : CameraNewCall(w, h)
    \/ \E n \in SamplesValues : SetSamplesPerPixel(n)
    \/ \E n \in DepthValues : SetMaxDepth(n)
    \/ \E a \in VfovValues : SetVfov(a)
    \/ \E p \in LookFromValues : SetLookFrom(p)
    \/ \E p \in LookAtValues : SetLookAt(p)
    \/ \E v \in ViewUpValues : SetViewUp(v)
    \/ \E a \in DefocusValues : SetDefocusAngle(a)
    \/ \E d \in FocusValues : SetFocusDistance(d)
    \/ \E sd \in Seeds : RenderBegin(sd)
    \/ \E y \in DOMAIN row_x : RenderPixel(y)
    \/ \E y \in DOMAIN row_x : RenderRowDone(y)
    \/ RenderReturn
    \/ \E a \in Albedos, f \in NewFuzzValues : MetalNewCall(a, f)
    \/ \E p \in HitPoints, draw \in MetalDraws :
          MetalScatterCall(Ray(Origin, Vector3f(U(2), -U(2), 0)),
                           Intersection(p, material, Vector3f(0, U(1), 0),
                                        U(1)),
                           draw)

\* Cameras and metals are created, configured and used, in any order.
ContractSpec == CallInit /\ [][ContractNext]_vars

(***************************************************************************)
(* Camera::get_ray called directly                                         *)
(***************************************************************************)

\* Camera::initialize, as the unit tests call it.
InitializeCall ==
    /\ pc = "idle"
    /\ camera' = Initialize(camera)
    /\ pc' = "initialized"
    /\ UNCHANGED <<objects, other_vars, pixels, progress, printed, row_x,
                   reported, seed, n_setters>>

\* Camera::get_ray for pixel px, py of an initialized camera, d holding the
\* values the generator returns.
GetRayCall(px, py, d) ==
    /\ pc = "initialized"
    /\ px < camera.image_width
    /\ py < camera.image_height
    /\ \E r \in {GetRay(camera, px, py, d)} : ray' = r
    /\ x' = <<px, py>>
    /\ rng' = d
    /\ pc' = "get_ray"
    /\ UNCHANGED <<objects, ray_t, idx, intersection, closest_t, result,
                   sphere, contained, color_vars, camera_vars, material,
                   isect_in, iact_out, vec_v, vec_n, eta, vec_out, op>>

GetRayNext ==
    \/ \E n \in SamplesValues : SetSamplesPerPixel(n)
    \/ \E n \in DepthValues : SetMaxDepth(n)
    \/ \E a \in VfovValues : SetVfov(a)
    \/ \E p \in LookFromValues : SetLookFrom(p)
    \/ \E p \in LookAtValues : SetLookAt(p)
    \/ \E v \in ViewUpValues : SetViewUp(v)
    \/ \E a \in DefocusValues : SetDefocusAngle(a)
    \/ \E d \in FocusValues : SetFocusDistance(d)
    \/ InitializeCall
    \/ \E px \in PixelRange, py \in PixelRange,
          sq \in SquareValues \X SquareValues,
          dk \in DiskValues \X DiskValues :
          GetRayCall(px, py, [square |-> sq, disk |-> dk])

\* A camera is configured and initialized, and get_ray is called.
GetRaySpec == RenderInit /\ [][GetRayNext]_vars

(***************************************************************************)
(* Operators on vectors and colours                                        *)
(***************************************************************************)

\* The operator o applied to the scalar s and the vector or colour v, in
\* the order given by name, has returned out.
Operated(name, o, s, v, out) ==
    /\ pc' = name
    /\ op' = o
    /\ eta' = s
    /\ vec_v' = v
    /\ vec_out' = out
    /\ vec_n' = Origin
    /\ material' = MaterialNone
    /\ ray' = NoRay
    /\ isect_in' = None
    /\ rng' = 0
    /\ iact_out' = NoInteraction
    /\ UNCHANGED uncalled_vars

\* Scalar <op> Vector.
ScalarVectorCall(o, s, v) ==
    \E out \in {SomeVector(ScalarVectorOp(o, s, v))} :
        Operated("scalar_vector", o, s, v, out)

\* Vector <op> Scalar.
VectorScalarCall(o, v, s) ==
    \E out \in {SomeVector(VectorScalarOp(o, v, s))} :
        Operated("vector_scalar", o, s, v, out)

\* Scalar <op> Color.
ScalarColorCall(o, s, c) ==
    \E out \in {SomeVector(ScalarColorOp(o, s, c))} :
        Operated("scalar_color", o, s, c, out)

\* Color <op> Scalar.
ColorScalarCall(o, c, s) ==
    \E out \in {SomeVector(ColorScalarOp(o, c, s))} :
        Operated("color_scalar", o, s, c, out)

OperatorNext ==
    \/ \E o \in Operators, s \in OperandScalars, v \in OperandVectors :
          ScalarVectorCall(o, s, v)
    \/ \E o \in Operators, s \in OperandScalars, v \in OperandVectors :
          VectorScalarCall(o, v, s)
    \/ \E o \in Operators, s \in OperandScalars, v \in OperandVectors :
          ScalarColorCall(o, s, Color(v))
    \/ \E o \in Operators, s \in OperandScalars, v \in OperandVectors :
          ColorScalarCall(o, Color(v), s)

\* The operators are applied to any of the operands, in any order.
OperatorSpec == CallInit /\ [][OperatorNext]_vars

(***************************************************************************)
(* Properties of the scene and of the sphere                               *)
(***************************************************************************)

\* v lies strictly between the bounds of iv.
InOpen(iv, v) == iv.start < v /\ v < iv.end

\* What each object of the scene returns from its own intersect(ray, ray_t).
Owns == [i \in 1..Len(objects) |-> ShapeIntersect(objects[i], ray, ray_t)]

\* The objects among the first k that hit the ray inside ray_t, own being
\* the table of the objects' own results.
HitsUpTo(own, k) == {i \in 1..k : own[i].some}

\* The first-added object among the first k with the smallest own t.
FirstMin(own, k) ==
    CHOOSE i \in HitsUpTo(own, k) :
        \A j \in HitsUpTo(own, k) :
            own[i].t < own[j].t \/ (own[i].t = own[j].t /\ i <= j)

\* The discriminant and the two roots of the quadratic of sphere s and the
\* current ray, from the geometry (the roots are 0 where there is none).
Roots(s) ==
    LET oc == VSub(ray.origin, s.center)
        a == Dot(ray.direction, ray.direction)
        half_b == Dot(ray.direction, oc)
        c == Dot(oc, oc) - Mul(s.radius, s.radius)
        disc == Mul(half_b, half_b) - Mul(a, c)
        root == IF disc < 0 THEN 0 ELSE Sqrt(disc)
    IN  [disc |-> disc,
         touch |-> IF disc < 0 THEN 0 ELSE Div(-half_b, a),
         near |-> IF disc < 0 THEN 0 ELSE Div(-half_b - root, a),
         far |-> IF disc < 0 THEN 0 ELSE Div(-half_b + root, a)]

\* C1: Scene.intersect returns absent iff no object's own intersect(ray, I)
\* hits; otherwise it returns exactly the record of an object whose own hit
\* has the smallest t; a scene of one object returns that object's result.
C1_SceneNearest ==
    pc = "done" =>
        LET own == Owns
            hitting == HitsUpTo(own, Len(objects))
        IN  /\ (result = None) <=> (hitting = {})
            /\ hitting # {} =>
                  \E i \in hitting :
                      /\ \A j \in hitting : own[i].t <= own[j].t
                      /\ result = own[i]
            /\ Len(objects) = 1 => result = own[1]

\* C1 witness: a finished scan of a scene in which two objects hit at
\* different t, and one whose own intersect is absent.
C1_Witness ==
    /\ pc = "done"
    /\ result.some
    /\ LET own == Owns
       IN  /\ \E i, j \in 1..Len(objects) :
                 own[i].some /\ own[j].some /\ own[i].t < own[j].t
           /\ \E k \in 1..Len(objects) : ~own[k].some

\* The permutations of the object list.
Perms ==
    {p \in [1..Len(objects) -> 1..Len(objects)] :
        \A i, j \in 1..Len(objects) : p[i] = p[j] => i = j}

Permuted(p) == [i \in 1..Len(objects) |-> objects[p[i]]]

\* C2: for every insertion order of the same objects Scene.intersect
\* returns a hit with the same t and point (or absent in every order); the
\* record differs between two orders only when two objects hit at the same
\* minimal t.
C2_OrderIndependent ==
    pc = "done" =>
        LET own == Owns
        IN  \A p \in Perms :
                LET other == SceneIntersect(Permuted(p), ray, ray_t)
                IN  /\ other.some <=> result.some
                    /\ result.some =>
                          other.t = result.t /\ other.point = result.point
                    /\ other # result =>
                          \E i, j \in HitsUpTo(own, Len(objects)) :
                              /\ i # j
                              /\ own[i].t = result.t
                              /\ own[j].t = result.t

\* C2 witness: a finished scan whose objects hit at pairwise different t,
\* added farthest first.
C2_Witness ==
    /\ pc = "done"
    /\ LET own == Owns
           hitting == HitsUpTo(own, Len(objects))
       IN  /\ Cardinality(hitting) >= 2
           /\ \A i, j \in hitting : i < j => own[i].t > own[j].t

C3_RunningResult ==
    /\ pc \in {"scan", "done"} =>
          LET own == Owns
          IN  IF HitsUpTo(own, idx - 1) = {}
              THEN intersection = None /\ closest_t = ray_t.end
              ELSE /\ intersection = own[FirstMin(own, idx - 1)]
                   /\ closest_t = intersection.t
    /\ pc = "done" => result = intersection

C3_Replace ==
    (pc = "scan" /\ intersection' # intersection) =>
        intersection'.some /\ intersection'.t < closest_t

\* C3: among objects that hit at the same minimal t the scan keeps the hit
\* of the one added first, and the running result is replaced only by a hit
\* with a strictly smaller t than the current closest t.
C3_FirstAddedWinsTies == []C3_RunningResult /\ [][C3_Replace]_vars

\* C3 witness: two different objects hit at the same minimal t and the
\* result is the record of the earlier one, which differs from the later's.
C3_Witness ==
    /\ pc = "done"
    /\ LET own == Owns
           hitting == HitsUpTo(own, Len(objects))
       IN  \E i, j \in hitting :
               /\ i < j
               /\ own[i].t = own[j].t
               /\ own[i] # own[j]
               /\ \A k \in hitting : own[i].t <= own[k].t
               /\ result = own[i]

\* The ray has a unit direction and passes through the centre of the called
\* sphere, at distance dist ahead of its origin.
ThroughCentre(dist) ==
    /\ Dot(ray.direction, ray.direction) = U(1)
    /\ VAdd(ray.origin, SMul(dist, ray.direction)) = sphere.center

CentreDistance == Length(VSub(sphere.center, ray.origin))

\* C4: Sphere.intersect is absent when the discriminant is negative;
\* otherwise it hits at the smaller root if the interval contains it, else
\* at the larger root if the interval contains it, else is absent.  Through
\* the centre from outside at distance d it hits at d - r over (0, inf) and
\* at d + r once the interval excludes d - r; from the centre it hits at r
\* over (0, inf) and at -r over (-inf, inf).
C4_RootSelection ==
    pc = "sphere" =>
        LET q == Roots(sphere)
            d == CentreDistance
        IN  /\ q.disc < 0 => result = None
            /\ q.disc >= 0 =>
                  IF InOpen(ray_t, q.near)
                  THEN result.some /\ result.t = q.near
                  ELSE IF InOpen(ray_t, q.far)
                  THEN result.some /\ result.t = q.far
                  ELSE result = None
            /\ (ThroughCentre(d) /\ d > sphere.radius) =>
                  /\ ray_t = Interval(0, INFINITY) =>
                        result.some /\ result.t = d - sphere.radius
                  /\ (/\ ~InOpen(ray_t, d - sphere.radius)
                      /\ InOpen(ray_t, d + sphere.radius)) =>
                        result.some /\ result.t = d + sphere.radius
            /\ (ThroughCentre(0) /\ sphere.radius > 0) =>
                  /\ ray_t = Interval(0, INFINITY) =>
                        result.some /\ result.t = sphere.radius
                  /\ ray_t = Interval(-INFINITY, INFINITY) =>
                        result.some /\ result.t = -sphere.radius

\* C4 witness: a ray through the centre from outside whose interval excludes
\* the smaller root d - r, answered with the larger root d + r.
C4_Witness ==
    /\ pc = "sphere"
    /\ ThroughCentre(CentreDistance)
    /\ CentreDistance > sphere.radius
    /\ ~InOpen(ray_t, CentreDistance - sphere.radius)
    /\ result.some
    /\ result.t = CentreDistance + sphere.radius

\* C5 as stated: Sphere.intersect is absent for every interval both when
\* the ray misses (discriminant < 0) and when it is tangent (discriminant
\* = 0).
C5_TangentAbsent ==
    pc = "sphere" => (Roots(sphere).disc <= 0 => result = None)

\* C5 amended: Sphere.intersect is absent for every interval when the ray
\* misses (discriminant < 0); a tangent ray (discriminant = 0) hits at its
\* touching point t = -half_b / a when the interval contains that t and is
\* absent only otherwise.
C5_MissAbsentTangentHits ==
    pc = "sphere" =>
        LET q == Roots(sphere)
        IN  /\ q.disc < 0 => result = None
            /\ q.disc = 0 =>
                  IF InOpen(ray_t, q.touch)
                  THEN result.some /\ result.t = q.touch
                  ELSE result = None

\* C5 witness: a tangent ray that is answered with a hit.
C5_Witness ==
    /\ pc = "sphere"
    /\ sphere.radius > 0
    /\ Roots(sphere).disc = 0
    /\ result.some

\* Sphere s has roots along the current ray and each is outside ray_t or on
\* one of its bounds.
RootsRejected(s) ==
    LET q == Roots(s)
    IN  q.disc >= 0 /\ ~InOpen(ray_t, q.near) /\ ~InOpen(ray_t, q.far)

\* Sphere s has no root along the current ray.
NoRoots(s) == Roots(s).disc < 0

\* C6: a hit returned by Sphere.intersect or Scene.intersect has
\* start < t < end and its point is ray.at(t); when every root lies outside
\* the interval or on one of its bounds the result is absent.
C6_StrictlyInside ==
    /\ (pc \in {"sphere", "done"} /\ result.some) =>
          /\ ray_t.start < result.t
          /\ result.t < ray_t.end
          /\ result.point =
                [i \in 1..3 |-> ray.origin[i] + Mul(result.t, ray.direction[i])]
    /\ (pc = "sphere" /\ RootsRejected(sphere)) => result = None
    /\ (/\ pc = "done"
        /\ \A i \in 1..Len(objects) :
              RootsRejected(objects[i]) \/ NoRoots(objects[i])) =>
          result = None

\* C6 witness: a scan that returns a hit although an object has a root
\* exactly on the lower bound of the interval, which was rejected.
C6_Witness ==
    /\ pc = "done"
    /\ result.some
    /\ \E i \in 1..Len(objects) :
          LET q == Roots(objects[i])
          IN  q.disc > 0 /\ q.near = ray_t.start /\ result.t = q.far

\* The origin of the ray is strictly inside the called sphere.
OriginInside ==
    LET oc == VSub(ray.origin, sphere.center)
    IN  Dot(oc, oc) < Mul(sphere.radius, sphere.radius)

\* C7: the normal of a hit of Sphere.intersect is (point - center) / radius;
\* it is not turned against the ray: where the ray leaves the sphere from
\* inside, dot(direction, normal) > 0.
C7_OutwardNormal ==
    (pc = "sphere" /\ result.some) =>
        /\ result.normal =
              [i \in 1..3 |->
                  Div(result.point[i] - sphere.center[i], sphere.radius)]
        /\ (OriginInside /\ result.t > 0) =>
              Dot(ray.direction, result.normal) > 0

\* C7 witness: a hit ahead of an origin that is inside the sphere.
C7_Witness ==
    /\ pc = "sphere"
    /\ result.some
    /\ OriginInside
    /\ result.t > 0

\* C8: contains(x) is true iff start < x < end; an interval with
\* start >= end contains nothing, and (-inf, +inf) contains every finite
\* value and neither infinity.
C8_ContainsStrict ==
    pc = "contains" =>
        /\ contained <=> (ray_t.start < x /\ x < ray_t.end)
        /\ ray_t.start >= ray_t.end => ~contained
        /\ ray_t = Interval(-INFINITY, INFINITY) =>
              (contained <=> x \notin {-INFINITY, INFINITY})

\* C8 witness: a value on the lower bound of a non-empty interval is not
\* contained.
C8_Witness ==
    /\ pc = "contains"
    /\ ray_t.start < ray_t.end
    /\ x = ray_t.start
    /\ ~contained

(***************************************************************************)
(* Properties of ray_color                                                 *)
(***************************************************************************)

\* The nearest hit of the current ray over (0.001, +inf).
NearestHit == SceneIntersect(objects, ray, Interval(Scale \div 1000, INFINITY))

\* The sky gradient (1 - a) * white + a * (0.5, 0.7, 1.0) of ray r, with
\* a = 0.5 * (y + 1) for the y of the normalized direction.
SkyColour(r) ==
    LET y == Div(r.direction[2], Sqrt(Dot(r.direction, r.direction)))
        a == Mul(Dec(5), y + U(1))
        blue == <<Dec(5), Dec(7), U(1)>>
    IN  [i \in 1..3 |-> Mul(U(1) - a, U(1)) + Mul(a, blue[i])]

C9_Budget ==
    pc \in {"color", "unwind", "colored"} =>
        /\ depth >= 0
        /\ depth = max_depth - Len(path)
        /\ n_intersect <= max_depth
        /\ n_scatter <= max_depth
        /\ pc \in {"unwind", "colored"} =>
              \/ ending = "depth" /\ depth = 0
              \/ ending = "absorbed" /\ depth > 0 /\ NearestHit.some
              \/ ending = "escape" /\ depth > 0 /\ ~NearestHit.some

C9_Step ==
    pc \in {"color", "unwind"} =>
        /\ depth' = depth \/ depth' = depth - 1
        /\ depth' = depth - 1 <=> Len(path') = Len(path) + 1
        /\ n_scatter' <= n_scatter + 1
        /\ n_intersect' <= n_intersect + 1

C9_Finishes == (pc = "color") ~> (pc = "colored")

\* C9: every evaluation of ray_color terminates: the depth falls by exactly
\* one on each scattered bounce and never rises, at most max_depth scene
\* intersections and scatter calls are made, and the evaluation ends by
\* exactly one of depth exhaustion, absorption and escape.
C9_Terminates == []C9_Budget /\ [][C9_Step]_vars /\ C9_Finishes

\* C9 witness: a sample that used its whole depth budget on scattered
\* bounces and ended by depth exhaustion.
C9_Witness ==
    /\ pc = "colored"
    /\ max_depth >= 2
    /\ n_scatter = max_depth
    /\ n_intersect = max_depth
    /\ ending = "depth"

RECURSIVE PathProduct(_, _, _)
\* atts[k] * (atts[k + 1] * ( ... * terminal)), component-wise.
PathProduct(atts, k, terminal) ==
    IF k > Len(atts) THEN terminal
    ELSE LET rest == PathProduct(atts, k + 1, terminal)
         IN  [i \in 1..3 |-> Mul(atts[k][i], rest[i])]

C10_Sample ==
    pc = "colored" =>
        /\ color = PathProduct(path, 1,
                               IF ending = "escape" THEN SkyColour(ray)
                               ELSE <<0, 0, 0>>)
        /\ max_depth = 0 => color = <<0, 0, 0>>

C10_Step ==
    /\ pc = "color" =>
          /\ depth = 0 => color' = <<0, 0, 0>> /\ pc' = "unwind"
          /\ (depth > 0 /\ ~NearestHit.some) =>
                color' = SkyColour(ray) /\ pc' = "unwind"
          /\ (depth > 0 /\ NearestHit.some /\ pc' = "unwind") =>
                /\ color' = <<0, 0, 0>>
                /\ \E draw \in RandomDraws :
                      ~MaterialInteract(NearestHit.material, ray, NearestHit,
                                        draw).some
          /\ (depth > 0 /\ NearestHit.some /\ pc' = "color") =>
                \E draw \in RandomDraws :
                    LET iact == MaterialInteract(NearestHit.material, ray,
                                                 NearestHit, draw)
                    IN  /\ iact.some
                        /\ stack' = Append(stack, iact.attenuation)
                        /\ ray' = iact.scattered_ray
                        /\ depth' = depth - 1
    /\ (pc = "unwind" /\ stack # <<>>) =>
          /\ color' = [i \in 1..3 |-> Mul(stack[Len(stack)][i], color[i])]
          /\ stack' = SubSeq(stack, 1, Len(stack) - 1)

\* C10: ray_color returns black at depth 0; at depth > 0 black when the
\* material of the nearest hit over (0.001, +inf) does not scatter,
\* attenuation * ray_color(scattered ray, depth - 1) when it does, and the
\* sky gradient when nothing is hit; so a sample is the product of the
\* attenuations along its path times black or the sky colour of its last
\* ray.
C10_RayColorValue == []C10_Sample /\ [][C10_Step]_vars

\* C10 witness: a sample of two or more bounces that escaped to the sky and
\* is not black.
C10_Witness ==
    /\ pc = "colored"
    /\ Len(path) >= 2
    /\ ending = "escape"
    /\ color # <<0, 0, 0>>

(***************************************************************************)
(* Claims about Camera::render                                             *)
(***************************************************************************)

\* The 8 base-256 digits of a buffer length.
LenDigits(n) == [k \in 0..7 |-> IF k <= 3 THEN Digits(n, 4)[k] ELSE 0]

\* The colour a render of configuration c gives pixel px, py of a black
\* buffer, under stream sd.
Rendered(c, px, py, sd) ==
    PixelColor(c, objects, px, py, Stream(sd, px, py), Black)

\* C11: for every camera Camera::new accepts, render returns exactly
\* width x height colours, the colour of pixel (x, y) at index y * width + x
\* (sequences here count from 1).
C11_RowMajor ==
    pc = "rendered" =>
        /\ LenDigits(Len(pixels))
              = WideProduct(camera.image_width, camera.image_height)
        /\ \A py \in 0..(camera.image_height - 1) :
              \A px \in 0..(camera.image_width - 1) :
                 pixels[py * camera.image_width + px + 1]
                    = Rendered(camera, px, py, seed)

\* The viewport state held in the fields of camera c.
Derived(c) == [f \in DOMAIN Viewport(c) |-> c[f]]

\* While a render runs, and when it has returned, the viewport fields are
\* the ones initialize derives from the configuration in the camera.
C12_Fresh ==
    pc \in {"render", "rendered"} => Derived(camera) = Viewport(camera)

\* While a render runs, the camera is not reconfigured.
C12_Step == (pc = "render") => (camera' = camera)

\* C12: after any sequence of setter and render calls, every render
\* computes its pixels from viewport state that initialize derived from the
\* configuration in force when render was called: initialize precedes the
\* first pixel, and no derived state of an earlier configuration is used.
C12_InitializeFirst == []C12_Fresh /\ [][C12_Step]_vars

\* C12 witness: a render made after two setter calls has written a pixel,
\* with a viewport that differs from the one of the default configuration.
C12_Witness ==
    /\ pc = "render"
    /\ n_setters = 2
    /\ \E y \in DOMAIN row_x : row_x[y] > 0
    /\ Derived(camera)
          # Viewport(CameraNew(camera.image_width, camera.image_height))

\* C13: given the same random draws for each pixel, render produces the
\* same image under every interleaving of the row workers: at every point
\* of a render each pixel a worker has passed holds the colour that depends
\* only on the camera, the scene and the pixel's own draws, every other
\* pixel is still black, and the buffer of a product that fits in a u32 has
\* width x height pixels; so each pixel is written once, by the worker of
\* its row, whatever the order in which rows advance and complete.
C13_Deterministic ==
    pc \in {"render", "rendered"} =>
        /\ ~MulU32(camera.image_width, camera.image_height).overflow =>
              Len(pixels) = camera.image_width * camera.image_height
        /\ \A i \in DOMAIN pixels :
              \E py \in {(i - 1) \div camera.image_width} :
                 \E px \in {(i - 1) % camera.image_width} :
                    pixels[i] = IF px < row_x[py]
                                THEN Rendered(camera, px, py, seed)
                                ELSE Black

\* C13 witness: the worker of the second row has finished and reported
\* while the worker of the first row is in the middle of its row, whose
\* first pixel is not black.
C13_Witness ==
    /\ pc = "render"
    /\ camera.image_height = 2
    /\ 1 \in reported
    /\ row_x[0] = 1
    /\ camera.image_width > 1
    /\ pixels[1] # Black

\* The state every row worker can reach: the scene, the camera, the
\* progress counter and the standard output.
shared_vars == <<objects, camera, progress, printed>>

\* C14 as claimed: during the parallel loop of a render with more than one
\* row worker, the only state shared between workers is read-only, so no
\* step of a worker changes it.
C14_SharedReadOnly ==
    [][(pc = "render" /\ Cardinality(DOMAIN row_x) > 1) =>
          UNCHANGED shared_vars]_vars

\* The indices at which two buffers of the same length differ.
Changed(p, q) == {i \in DOMAIN p : p[i] # q[i]}

\* A step taken while a render runs.
C14_Step ==
    (pc = "render") =>
        /\ UNCHANGED <<objects, camera, seed>>
        /\ Len(pixels') = Len(pixels)
        /\ (pixels' # pixels) =>
              /\ UNCHANGED <<progress, printed, reported>>
              /\ \E y \in DOMAIN row_x :
                    /\ row_x' = [row_x EXCEPT ![y] = row_x[y] + 1]
                    /\ Changed(pixels, pixels')
                          = {ChunkStart(y, camera.image_width) + row_x[y] + 1}
        /\ (<<progress, printed>>' # <<progress, printed>>) =>
              /\ pixels' = pixels
              /\ progress' = progress + 1
              /\ printed' = Append(printed, progress)

\* C14, amended: during the parallel loop the scene and the camera are not
\* modified, a worker writes pixels of its own row only, and the one piece
\* of state that several workers write is the progress counter (with the
\* standard output it is printed to): each worker adds one to it atomically
\* when its row is finished, in a step that writes no pixel.
C14_SharedOnlyProgress == [][C14_Step]_vars

\* C14 witness: two row workers have each incremented the progress counter
\* of a running render.
C14_Witness ==
    /\ pc = "render"
    /\ progress = 2
    /\ printed = <<0, 1>>
    /\ Cardinality(reported) = 2

(***************************************************************************)
(* Claims about the materials                                              *)
(***************************************************************************)

\* The direction a mirror sends the incident ray of the last call to.
Mirrored == Normalize(Reflect(ray.direction, isect_in.normal))

\* The last call was Metal::interact on a metal without fuzz.
MirrorCalled == pc = "metal" /\ material.fuzz = 0

\* C15 as claimed: with fuzz = 0, for every incident ray and unit normal
\* Metal::interact returns a present interaction whose direction is exactly
\* normalize(reflect(incident, normal)), whose attenuation is the albedo and
\* whose origin is the intersection point, whatever the random draw.
C15_AlwaysReflects ==
    MirrorCalled =>
        iact_out = Interaction(material.albedo,
                               Ray(isect_in.point, Mirrored))

\* C15, amended: with fuzz = 0 the result does not depend on the random
\* draw; it is that interaction when the mirrored direction does not point
\* below the surface (its dot product with the normal is >= 0), and absent
\* when it does, which is when the ray arrives from behind the normal.
C15_ReflectsAboveSurface ==
    MirrorCalled =>
        iact_out = IF Dot(Mirrored, isect_in.normal) >= 0
                   THEN Interaction(material.albedo,
                                    Ray(isect_in.point, Mirrored))
                   ELSE NoInteraction

\* C15 witness: a mirror has reflected the ray of the unit test, and the
\* direction returned is not the reflected vector before normalization.
C15_Witness ==
    /\ MirrorCalled
    /\ ray.direction = Vector3f(U(2), -U(2), 0)
    /\ iact_out.some
    /\ iact_out.scattered_ray.direction
          # Reflect(ray.direction, isect_in.normal)

\* The sum Metal::interact forms in the last call, and its final scatter
\* direction: the sum, or the reflection when the sum is near zero.
MetalSum ==
    VAdd(Mirrored, SMul(material.fuzz, RandomUnitVector(rng)))

MetalFinal ==
    IF NearZero(MetalSum) THEN Reflect(ray.direction, isect_in.normal)
    ELSE MetalSum

\* C25: Metal::interact returns the absent result exactly when its final
\* scatter direction has a negative dot product with the normal of the
\* intersection; in every other case the result is present, its attenuation
\* is the albedo and its ray starts at the intersection point with that
\* direction.
C25_AbsorbsBelowSurface ==
    pc = "metal" =>
        /\ ~iact_out.some <=> Dot(MetalFinal, isect_in.normal) < 0
        /\ iact_out.some =>
              /\ iact_out.attenuation = material.albedo
              /\ iact_out.scattered_ray.origin = isect_in.point
              /\ iact_out.scattered_ray.direction = MetalFinal

\* C25 witness: a ray that arrives from above the surface has been absorbed
\* by a fuzzy metal: the mirrored direction points above the surface and the
\* final direction below it.
C25_Witness ==
    /\ pc = "metal"
    /\ material.fuzz > 0
    /\ Dot(Mirrored, isect_in.normal) > 0
    /\ Dot(MetalFinal, isect_in.normal) < 0
    /\ ~iact_out.some

\* C16: Lambert::interact never absorbs: the interaction is present, its
\* attenuation is the albedo and its scattered ray starts at the
\* intersection point.
C16_NeverAbsorbs ==
    pc = "lambert" =>
        /\ iact_out.some
        /\ iact_out.attenuation = material.albedo
        /\ iact_out.scattered_ray.origin = isect_in.point

\* The sum Lambert::interact forms in the last call.
LambertSum == VAdd(isect_in.normal, RandomUnitVector(rng))

\* C16 witness: Lambert::interact has returned for a draw opposite to the
\* normal, where the sum of the two is near zero.
C16_Witness ==
    /\ pc = "lambert"
    /\ NearZero(LambertSum)
    /\ iact_out.some

\* The last call was Lambert::interact at a unit normal.
LambertCalled == pc = "lambert" /\ Length(isect_in.normal) = U(1)

\* C17 as claimed: for a unit normal and every random unit vector the
\* scattered direction of Lambert::interact has a dot product >= 0 with the
\* normal, and it is the bare normal when normal + random is near zero.
C17_Hemisphere ==
    LambertCalled =>
        /\ Dot(iact_out.scattered_ray.direction, isect_in.normal) >= 0
        /\ NearZero(LambertSum) =>
              iact_out.scattered_ray.direction = isect_in.normal

\* C17, amended: the scattered direction is the rounded sum normal + random,
\* or the bare normal when every component of the sum is below epsilon in
\* magnitude; its dot product with the normal is >= 0 up to rounding only,
\* and never below -4 * epsilon.
C17_HemisphereRounded ==
    LambertCalled =>
        /\ Dot(iact_out.scattered_ray.direction, isect_in.normal)
              >= -(4 * EPSILON)
        /\ iact_out.scattered_ray.direction
              = IF NearZero(LambertSum) THEN isect_in.normal ELSE LambertSum

\* C17 witness: a scattered direction that is not the fallback and has a
\* negative dot product with the unit normal.
C17_Witness ==
    /\ LambertCalled
    /\ ~NearZero(LambertSum)
    /\ Dot(iact_out.scattered_ray.direction, isect_in.normal) < 0

\* The normal of the last call, turned against the incident ray.
SidedNormal ==
    IF Dot(ray.direction, isect_in.normal) <= 0 THEN isect_in.normal
    ELSE VNeg(isect_in.normal)

\* The ratio of refractive indices of the last call: 1 / ior on the front
\* face, ior on the back face.
SidedRatio ==
    IF Dot(ray.direction, isect_in.normal) <= 0 THEN Div(U(1), material.ior)
    ELSE material.ior

\* C18: Dielectric::interact always returns a present interaction with
\* white attenuation and origin at the intersection point, whose direction
\* is either reflect(normalized incident, sided normal) or
\* refract(normalized incident, sided normal, ratio), never anything else.
C18_ReflectOrRefract ==
    pc = "dielectric" =>
        /\ iact_out.some
        /\ iact_out.attenuation = White
        /\ iact_out.scattered_ray.origin = isect_in.point
        /\ \E incident \in {Normalize(ray.direction)} :
              \/ iact_out.scattered_ray.direction
                    = Reflect(incident, SidedNormal)
              \/ /\ Refract(incident, SidedNormal, SidedRatio).some
                 /\ iact_out.scattered_ray.direction
                       = Refract(incident, SidedNormal, SidedRatio).value

\* C18 witness: a ray leaving the glass through the back face has been
\* refracted, not reflected.
C18_Witness ==
    /\ pc = "dielectric"
    /\ Dot(ray.direction, isect_in.normal) > 0
    /\ iact_out.some
    /\ iact_out.scattered_ray.direction
          # Reflect(Normalize(ray.direction), SidedNormal)

\* The normalized incident direction of the last call, its refraction at the
\* sided normal, and the reflectance of Schlick's approximation.
UnitIncident == Normalize(ray.direction)

SidedRefraction == Refract(UnitIncident, SidedNormal, SidedRatio)

Reflectance == Schlick(UnitIncident, SidedNormal, SidedRatio)

\* C26: Dielectric::interact takes the hit as front-face iff
\* dot(incident, normal) <= 0, with the stored normal and the ratio 1 / ior,
\* and otherwise takes the negated normal and the ratio ior; it reflects
\* iff the draw from [0, 1) is less than the Schlick reflectance or
\* refraction is impossible, and refracts otherwise; under total internal
\* reflection the result is the reflection for every draw.
C26_FresnelChoice ==
    pc = "dielectric" =>
        /\ iact_out.some
        /\ iact_out.scattered_ray.direction
              = IF rng < Reflectance \/ ~SidedRefraction.some
                THEN Reflect(UnitIncident, SidedNormal)
                ELSE SidedRefraction.value
        /\ ~SidedRefraction.some =>
              iact_out.scattered_ray.direction
                 = Reflect(UnitIncident, SidedNormal)

\* C26 witness: a ray inside the glass has met the back face beyond the
\* critical angle with a draw above the reflectance, and has been reflected.
C26_Witness ==
    /\ pc = "dielectric"
    /\ Dot(ray.direction, isect_in.normal) > 0
    /\ ~SidedRefraction.some
    /\ rng >= Reflectance
    /\ iact_out.some
    /\ iact_out.scattered_ray.direction
          = Reflect(UnitIncident, VNeg(isect_in.normal))

(***************************************************************************)
(* Claims about reflect and refract                                        *)
(***************************************************************************)

AxisAligned(n) ==
    \E i \in 1..3 : Abs(n[i]) = U(1) /\ \A j \in (1..3) \ {i} : n[j] = 0

RefractCalled ==
    /\ pc = "refract"
    /\ Length(vec_v) = U(1)
    /\ Length(vec_n) = U(1)
    /\ Dot(vec_n, vec_v) <= 0

\* cos(theta_i) = min(-dot(n, v), 1) of the last call.
CosThetaI == MinF(-Dot(vec_n, vec_v), U(1))

\* eta^2 * (1 - cos^2(theta_i)) of the last call.
Sin2ThetaT == Mul(Mul(eta, eta), U(1) - Mul(CosThetaI, CosThetaI))

\* C20 as claimed: refract is absent exactly when
\* eta^2 * (1 - cos^2(theta_i)) > 1 and present otherwise, and for eta = 1
\* the result is present and equals v.
C20_RefractExact ==
    RefractCalled =>
        /\ vec_out.some <=> ~(Sin2ThetaT > U(1))
        /\ (eta = U(1)) => vec_out = SomeVector(vec_v)

\* C20, amended: absence is as claimed; for eta = 1 the result is present
\* and is v + n * (cos(theta_i) - cos(theta_t)), where
\* cos(theta_t) = sqrt(1 - (1 - cos^2(theta_i))) equals cos(theta_i) only up
\* to rounding: the result is v exactly for head-on incidence, and within
\* 2 * sqrt(epsilon) of v in every component otherwise.
C20_RefractRounded ==
    RefractCalled =>
        /\ vec_out.some <=> ~(Sin2ThetaT > U(1))
        /\ (eta = U(1)) =>
              /\ vec_out.some
              /\ vec_out.value
                    = VAdd(vec_v,
                           VMulS(vec_n,
                                 CosThetaI - Sqrt(U(1) - Sin2ThetaT)))
              /\ (CosThetaI = U(1)) => vec_out.value = vec_v
              /\ \A i \in 1..3 :
                    Abs(vec_out.value[i] - vec_v[i]) <= 2 * Sqrt(EPSILON)

\* C20 witness: a unit vector has been refracted with eta = 1 and the
\* result is not the vector itself.
C20_Witness ==
    /\ RefractCalled
    /\ eta = U(1)
    /\ vec_out.some
    /\ vec_out.value # vec_v

(***************************************************************************)
(* Claims about the operators                                              *)
(***************************************************************************)

\* The components of the operands and of the result of the last operator
\* call, of a vector or of a colour.
OperandComponents ==
    IF pc \in {"scalar_color", "color_scalar"} THEN vec_v.values ELSE vec_v

ResultComponents ==
    IF pc \in {"scalar_color", "color_scalar"} THEN vec_out.value.values
    ELSE vec_out.value

\* C21: a scalar is broadcast to every component and the operator is
\* applied component by component with the operands in the written order:
\* s + v = v + s and s * v = v * s, s / v has the components s / v_i (not
\* v_i / s) and s - v the components s - v_i; Color follows the same rules
\* as Vector.
C21_Broadcast ==
    /\ pc \in {"scalar_vector", "scalar_color"} =>
          \A i \in 1..3 :
             /\ op = "+" => ResultComponents[i] = eta + OperandComponents[i]
             /\ op = "+" => ResultComponents[i] = OperandComponents[i] + eta
             /\ op = "*" =>
                   ResultComponents[i] = Mul(eta, OperandComponents[i])
             /\ op = "*" =>
                   ResultComponents[i] = Mul(OperandComponents[i], eta)
             /\ op = "-" => ResultComponents[i] = eta - OperandComponents[i]
             /\ op = "/" =>
                   ResultComponents[i] = Div(eta, OperandComponents[i])
    /\ pc \in {"vector_scalar", "color_scalar"} =>
          \A i \in 1..3 :
             /\ op = "+" => ResultComponents[i] = OperandComponents[i] + eta
             /\ op = "*" =>
                   ResultComponents[i] = Mul(OperandComponents[i], eta)
             /\ op = "-" => ResultComponents[i] = OperandComponents[i] - eta
             /\ op = "/" =>
                   ResultComponents[i] = Div(OperandComponents[i], eta)

\* C21 witness: 6.0 / (6, 3, 2) has been computed and is (1, 2, 3), which is
\* not (6, 3, 2) / 6.0.
C21_Witness ==
    /\ pc = "scalar_vector"
    /\ op = "/"
    /\ eta = U(6)
    /\ vec_v = Vector3f(U(6), U(3), U(2))
    /\ vec_out.value = Vector3f(U(1), U(2), U(3))
    /\ vec_out.value # VectorScalarOp("/", vec_v, eta)

(***************************************************************************)
(* Claims about the rendered image                                         *)
(***************************************************************************)

\* The index in the buffer of pixel px of row py.
PixelIndex(px, py) == py * camera.image_width + px + 1

\* The pixels the workers have finished.
FinishedPixels ==
    IF pc \in {"render", "rendered"}
    THEN {q \in (0..(camera.image_width - 1)) \X DOMAIN row_x :
             q[1] < row_x[q[2]]}
    ELSE {}

\* The primary ray of the only sample of pixel q and what it hits.
PrimaryRay(q) == GetRay(camera, q[1], q[2], Stream(seed, q[1], q[2])[1])

PrimaryHit(q) == SceneIntersect(objects, PrimaryRay(q), RayColorInterval)

C23_NoPanic == pc # "panic"

\* f32 <=: false when an operand is NaN.
Le(a, b) == a # NAN /\ b # NAN /\ a <= b

\* The dimensions of the camera and the fuzz factor of the metal held are
\* within their contracts.
C24_Contracts ==
    /\ camera.image_width > 0
    /\ camera.image_height > 0
    /\ material.kind = "Metal" =>
          (Le(0, material.fuzz) /\ Le(material.fuzz, U(1)))

\* A step that is not a call of Camera::new leaves the dimensions alone, and
\* one that is not a call of Metal::new leaves the fuzz factor alone.
C24_Step ==
    /\ (\A w \in Dimensions, h \in Dimensions : ~CameraNewCall(w, h)) =>
          /\ camera'.image_width = camera.image_width
          /\ camera'.image_height = camera.image_height
    /\ (\A a \in Albedos, f \in NewFuzzValues : ~MetalNewCall(a, f)) =>
          material' = material

\* C24: in every reachable state the camera has width > 0 and height > 0
\* and the metal has 0 <= fuzz <= 1: Camera::new rejects a zero dimension,
\* Metal::new clamps the fuzz factor, and no setter, render or scatter
\* changes the dimensions or the fuzz factor.
C24_ConstructionContracts == []C24_Contracts /\ [][C24_Step]_vars

RECURSIVE SampleTotal(_, _, _)
\* The sum of the first k samples of pixel px, py of the running render:
\* each is ray_color at depth max_depth of the ray get_ray returns.
SampleTotal(px, py, k) ==
    IF k = 0 THEN Black
    ELSE LET d == Stream(seed, px, py)[k]
         IN  VAdd(SampleTotal(px, py, k - 1),
                  RayColorValue(objects, GetRay(camera, px, py, d),
                                camera.max_depth, d.scatter, 1))

\* A step in which the worker of a row finishes a pixel stores the sum of
\* its samples_per_pixel samples, divided once by samples_per_pixel.
C27_Step ==
    \A y \in DOMAIN row_x :
       (pc = "render" /\ pc' = "render" /\ row_x'[y] = row_x[y] + 1) =>
          pixels'[PixelIndex(row_x[y], y)]
             = [i \in 1..3 |->
                  Div(SampleTotal(row_x[y], y, camera.samples_per_pixel)[i],
                      U(camera.samples_per_pixel))]

\* C27: every pixel receives exactly samples_per_pixel samples, each
\* get_ray followed by ray_color at depth max_depth, and holds their sum
\* divided by samples_per_pixel, the division being applied once, after the
\* last sample.
C27_AveragedOnce == [][C27_Step]_vars

\* C27 witness: a render with two samples per pixel has returned an image
\* with a pixel that is neither black nor the sum of its samples.
C27_Witness ==
    /\ pc = "rendered"
    /\ camera.samples_per_pixel = 2
    /\ \E q \in FinishedPixels :
          /\ pixels[PixelIndex(q[1], q[2])] # Black
          /\ pixels[PixelIndex(q[1], q[2])] # SampleTotal(q[1], q[2], 2)

(***************************************************************************)
(* Claims about get_ray                                                    *)
(***************************************************************************)

\* The centre of the pixel of the last get_ray call, the offsets of its
\* sample in pixel deltas, and the sample point.
PixelCentre ==
    VAdd(VAdd(camera.pixel00_location, SMul(U(x[1]), camera.pixel_delta_u)),
         SMul(U(x[2]), camera.pixel_delta_v))

Jitter == <<rng.square[1] - Dec(5), rng.square[2] - Dec(5)>>

JitteredSample ==
    VAdd(PixelCentre, VAdd(SMul(Jitter[1], camera.pixel_delta_u),
                           SMul(Jitter[2], camera.pixel_delta_v)))

\* The point of the unit disk the last get_ray call has sampled: the draw,
\* or the normalized draw when the draw is outside the disk.
DiskSample ==
    LET drawn == Vector3f(rng.disk[1], rng.disk[2], 0)
    IN  IF LengthSquared(drawn) > U(1) THEN Normalize(drawn) ELSE drawn

\* The squared length a * a + b * b of the point sampled in the disk.
DiskNorm == Mul(DiskSample[1], DiskSample[1])
            + Mul(DiskSample[2], DiskSample[2])

\* What get_ray has returned but for the bound on the point of the disk:
\* the origin is look_from or look_from + a * defocus_disk_u
\* + b * defocus_disk_v, and origin + direction is the sample point, within
\* [-0.5, 0.5) pixel deltas of the centre on both axes and no further from
\* it than the length of pixel_delta_u.
RayOfPixel ==
    /\ ray.origin = IF camera.defocus_angle <= 0 THEN camera.look_from
                    ELSE VAdd(VAdd(camera.look_from,
                                   SMul(DiskSample[1], camera.defocus_disk_u)),
                              SMul(DiskSample[2], camera.defocus_disk_v))
    /\ RayAt(ray, 0) = ray.origin
    /\ RayAt(ray, U(1)) = JitteredSample
    /\ \A i \in 1..2 : -Dec(5) <= Jitter[i] /\ Jitter[i] < Dec(5)
    /\ Length(VSub(RayAt(ray, U(1)), PixelCentre))
          <= Length(camera.pixel_delta_u)

Rows == DOMAIN row_x

FinishedRows ==
    {y \in Rows : row_x[y] = ChunkLen(y, Len(pixels), camera.image_width)}

\* While a render runs and when it has returned: a row has advanced the
\* counter only with all its pixels averaged, the counter counts the rows
\* that have advanced it, the values fetched are 0, 1, ... in this order,
\* and a finished row that has not advanced the counter can do so whatever
\* the other rows have done.  When render has returned the counter is the
\* number of rows, which is image_height where the buffer length has not
\* overflowed.
C29_Counter ==
    pc \in {"render", "rendered"} =>
        /\ reported \subseteq FinishedRows
        /\ progress = Cardinality(reported)
        /\ printed = [i \in 1..progress |-> i - 1]
        /\ pc = "render" =>
              \A y \in FinishedRows \ reported : ENABLED RenderRowDone(y)
        /\ pc = "rendered" => progress = Cardinality(Rows)
        /\ ~MulU32(camera.image_width, camera.image_height).overflow =>
              Cardinality(Rows) = camera.image_height

\* A step of a running render advances the counter by one for the one row
\* that reports in it, or leaves the counter and the reports alone.
C29_Step ==
    (pc = "render" /\ pc' = "render") =>
        \/ progress' = progress /\ reported' = reported
        \/ /\ progress' = progress + 1
           /\ \E y \in Rows \ reported : reported' = reported \cup {y}

\* C29: under every interleaving of the row workers the progress counter
\* is incremented exactly once per row and only after all pixels of that
\* row are averaged; the increments return 0, 1, ..., H - 1, each once; the
\* counter is H when render returns; no worker waits on the counter.
C29_ProgressPerRow == []C29_Counter /\ [][C29_Step]_vars

\* C29 witness: the worker of the second row has advanced the counter
\* first, before the worker of the first row has finished a pixel.
C29_Witness ==
    /\ pc = "render"
    /\ Cardinality(Rows) = 2
    /\ reported = {1}
    /\ printed = <<0>>
    /\ row_x[0] = 0

====
